---- MODULE Spec2Model ----
(***************************************************************************)
(* WindBorne vendor dashboard: the vendor normalizer (mockVendorData), the *)
(* page controller (Index), the comparison table view-model and the        *)
(* recommendation generator (FinancialRecommendations).                    *)
(*                                                                         *)
(* JavaScript values are records [t, n, s, a]: t is the kind, n the number *)
(* in thousandths (fixed point, see Decimals), s the characters of a       *)
(* string, a the elements of an array.  Fields a kind does not use hold 0  *)
(* or <<>>.                                                                *)
(***************************************************************************)
EXTENDS Integers, Sequences, FiniteSets

VARIABLES
    backendVendors,   \* mapper harness: the list handed to mapBackendVendorsToFrontend
    mapped,           \* mapper harness: its outcome, or NotMapped
    vendors,          \* Index: useState<VendorData[]>
    kpis,             \* Index: useState<KPIsResponse | null>
    isLoading,        \* Index: useState(true)
    isRefreshing,     \* Index: useState(false)
    error,            \* Index: useState<string | null>
    notification,     \* title of the last toast
    loadOp,           \* the loadData invocation in flight
    refreshOp,        \* the handleRefresh invocation in flight
    exportOps,        \* handleExport invocations awaiting api.exportCSV
    downloads,        \* CSV downloads triggered so far
    view,             \* what the last render of Index produced
    issued,           \* number of load/refresh operations issued so far
    vendorsFrom,      \* the operation whose response set vendors (0: none)
    kpisFrom,         \* the operation whose response set kpis (0: none)
    tableVendors,     \* ComparisonTable: the vendors prop
    sortField,        \* ComparisonTable: useState<SortField>('marketCap')
    sortOrder,        \* ComparisonTable: useState<SortOrder>('desc')
    filterType,       \* ComparisonTable: useState('all')
    filterRisk,       \* ComparisonTable: useState('all')
    searchTerm,       \* ComparisonTable: useState('')
    recVendors,       \* FinancialRecommendations: the vendors prop
    recRendered,      \* <<what FinancialRecommendations rendered>>, or <<>>
    shownBefore,      \* <<the list displayed before the click>> after a click
                      \* on the selected column's header, <<>> otherwise
    selectedVendor,   \* Index: useState<VendorData | null>(null), <<>> for null
    isModalOpen,      \* Index: useState(false)
    cacheOps,         \* Index: the ticks of optimizeInterval in flight
    viewVendors,      \* the vendors prop of the cards, rows and panels
    viewRendered,     \* <<what they rendered>>, or <<>>
    controlsVendors,  \* ExportControls: the vendors prop
    isCsvExporting,   \* ExportControls: useState(false)
    isReportGenerating, \* ExportControls: useState(false)
    csvExportComplete, \* ExportControls: useState(false)
    reportComplete,   \* ExportControls: useState(false)
    controlsOps,      \* ExportControls: the timers that have not fired yet
    controlsFiles     \* ExportControls: the files downloaded so far

mapVars == <<backendVendors, mapped>>
pageVars == <<vendors, kpis, isLoading, isRefreshing, error, notification,
              loadOp, refreshOp, exportOps, downloads, view, issued,
              vendorsFrom, kpisFrom>>
tableVars == <<tableVendors, sortField, sortOrder, filterType, filterRisk,
               searchTerm, shownBefore>>
recVars == <<recVendors, recRendered>>
modalVars == <<selectedVendor, isModalOpen>>
cacheVars == <<cacheOps>>
viewVars == <<viewVendors, viewRendered>>
controlsVars == <<controlsVendors, isCsvExporting, isReportGenerating,
                  csvExportComplete, reportComplete, controlsOps,
                  controlsFiles>>
sideVars == <<modalVars, cacheVars, viewVars, controlsVars>>
vars == <<mapVars, pageVars, tableVars, recVars, sideVars>>

----------------------------------------------------------------------------
(* Bounds of the model *)

\* records handed to the mapper in one list
MaxListLen == 3
\* fields of a backend record that are null or missing at the same time
MaxMissing == 2
\* load and refresh operations issued in one run of the page
MaxOps == 3
\* handleExport invocations in one run of the page
MaxExports == 1
\* vendors handed to the comparison table
MaxTableLen == 3
\* vendors handed to FinancialRecommendations
MaxRecLen == 5
\* ticks of the cache timer in flight at the same time
MaxTicks == 1
\* clicks on the buttons of ExportControls in one run
MaxClicks == 2

----------------------------------------------------------------------------
(* JavaScript values *)

\* finest precision the mapper asks of toFixed: safeNumber(beta, 3)
Decimals == 3
Unit == 10 ^ Decimals

Undefined == [t |-> "undefined", n |-> 0, s |-> <<>>, a |-> <<>>]
Null == [t |-> "null", n |-> 0, s |-> <<>>, a |-> <<>>]
NaN == [t |-> "NaN", n |-> 0, s |-> <<>>, a |-> <<>>]
Num(x) == [t |-> "number", n |-> x, s |-> <<>>, a |-> <<>>]
Str(x) == [t |-> "string", n |-> 0, s |-> x, a |-> <<>>]
Arr(x) == [t |-> "array", n |-> 0, s |-> <<>>, a |-> x]

\* typeof v
TypeOf(v) ==
    CASE v.t \in {"number", "NaN"} -> "number"
      [] v.t = "string" -> "string"
      [] v.t = "undefined" -> "undefined"
      [] OTHER -> "object"

\* v === null || v === undefined
IsNullish(v) == v.t \in {"null", "undefined"}

\* the truthiness `||` tests
Truthy(v) ==
    CASE v.t \in {"undefined", "null", "NaN"} -> FALSE
      [] v.t = "number" -> v.n # 0
      [] v.t = "string" -> v.s # <<>>
      [] OTHER -> TRUE

\* a || b
Or(a, b) == IF Truthy(a) THEN a ELSE b

\* Number(v); the strings of the model hold no digits, so only '' is numeric
ToNumber(v) ==
    CASE v.t = "number" -> v
      [] v.t = "null" -> Num(0)
      [] v.t = "string" -> IF v.s = <<>> THEN Num(0) ELSE NaN
      [] v.t = "array" -> IF v.a = <<>> THEN Num(0) ELSE NaN
      [] OTHER -> NaN

\* isNaN(Number(v))
IsNaNNumber(v) == ToNumber(v).t = "NaN"

Abs(x) == IF x < 0 THEN -x ELSE x

\* v / d for a positive integer d
Divide(v, d) ==
    LET x == ToNumber(v)
    IN  IF x.t = "NaN" THEN NaN
        ELSE Num((IF x.n < 0 THEN -1 ELSE 1) * (Abs(x.n) \div d))

\* the number x.toFixed(decimals) denotes: x rounded to `decimals` places,
\* halves away from zero
ToFixed(x, decimals) ==
    LET step == 10 ^ (Decimals - decimals)
        q == (Abs(x) + step \div 2) \div step
    IN  (IF x < 0 THEN -1 ELSE 1) * q * step

\* Math.round(v): the nearest integer, halves towards +Infinity
MathRound(v) ==
    IF v.t = "NaN" THEN NaN ELSE Num(((v.n + Unit \div 2) \div Unit) * Unit)

Digits == <<"0", "1", "2", "3", "4", "5", "6", "7", "8", "9">>

RECURSIVE NatToString(_)
NatToString(x) ==
    IF x < 10 THEN <<Digits[x + 1]>>
    ELSE NatToString(x \div 10) \o <<Digits[(x % 10) + 1]>>

RECURSIVE FractionToString(_, _)
\* the digits of m / 10^places, trailing zeros dropped
FractionToString(m, places) ==
    IF m = 0 \/ places = 0 THEN <<>>
    ELSE LET p == 10 ^ (places - 1)
         IN  <<Digits[(m \div p) + 1]>> \o FractionToString(m % p, places - 1)

\* String(v) for a number
NumberToString(x) ==
    LET frac == FractionToString(Abs(x) % Unit, Decimals)
    IN  (IF x < 0 THEN <<"-">> ELSE <<>>)
        \o NatToString(Abs(x) \div Unit)
        \o (IF frac = <<>> THEN <<>> ELSE <<".">> \o frac)

\* String(v)
StringOf(v) ==
    CASE v.t = "string" -> v.s
      [] v.t = "number" -> NumberToString(v.n)
      [] v.t = "NaN" -> <<"N", "a", "N">>
      [] v.t = "null" -> <<"n", "u", "l", "l">>
      [] v.t = "undefined" -> <<"u", "n", "d", "e", "f", "i", "n", "e", "d">>
      [] OTHER -> <<>>

----------------------------------------------------------------------------
(* mockVendorData: the safe accessors *)

safeNumber_NoNaNCheck(value, decimals) ==
    IF IsNullish(value) THEN Num(0)
    ELSE IF ToNumber(value).t = "NaN" THEN NaN
    ELSE Num(ToFixed(ToNumber(value).n, decimals))

safeNumber(value, decimals) ==
    IF IsNullish(value) \/ IsNaNNumber(value) THEN Num(0)
    ELSE Num(ToFixed(ToNumber(value).n, decimals))

safeString(value, fallback) ==
    IF IsNullish(value) THEN Str(fallback) ELSE Str(StringOf(value))

safeArray(value) == IF value.t # "array" THEN Arr(<<>>) ELSE value

----------------------------------------------------------------------------
(* Program literals *)

Sensors == <<"S", "e", "n", "s", "o", "r", "s">>
Materials == <<"M", "a", "t", "e", "r", "i", "a", "l", "s">>
Plastics == <<"P", "l", "a", "s", "t", "i", "c", "s">>
SensorSupplier ==
    <<"S", "e", "n", "s", "o", "r", " ", "S", "u", "p", "p", "l", "i", "e", "r">>
MaterialsSupplier ==
    <<"M", "a", "t", "e", "r", "i", "a", "l", "s", " ",
      "S", "u", "p", "p", "l", "i", "e", "r">>
low == <<"l", "o", "w">>
medium == <<"m", "e", "d", "i", "u", "m">>
high == <<"h", "i", "g", "h">>
NotAvailable == <<"N", "/", "A">>
UNKNOWN == <<"U", "N", "K", "N", "O", "W", "N">>
UnknownVendor ==
    <<"U", "n", "k", "n", "o", "w", "n", " ", "V", "e", "n", "d", "o", "r">>
\* new Date().toISOString(): the clock reading, one fixed instant in the model
NowISO == <<"n", "o", "w">>

\* 1_000_000_000 dollars.  Money amounts of backend records are counted in
\* millions of dollars (a dollar amount in thousandths does not fit a TLC
\* integer), so a billion dollars is 1000 of them.
OneBillion == 1000

----------------------------------------------------------------------------
(* mockVendorData: the formatters *)

RECURSIVE PaddedDigits(_, _)
\* the `places` digits of m, leading zeros kept
PaddedDigits(m, places) ==
    IF places = 0 THEN <<>>
    ELSE LET p == 10 ^ (places - 1)
         IN  <<Digits[(m \div p) + 1]>> \o PaddedDigits(m % p, places - 1)

\* x.toFixed(decimals): the text, with the sign of x and exactly `decimals`
\* digits after the point
toFixed(x, decimals) ==
    LET r == Abs(ToFixed(x, decimals))
        fraction == (r % Unit) \div (10 ^ (Decimals - decimals))
    IN  (IF x < 0 THEN <<"-">> ELSE <<>>)
        \o NatToString(r \div Unit)
        \o (IF decimals = 0 THEN <<>>
            ELSE <<".">> \o PaddedDigits(fraction, decimals))

formatPercentage(value) ==
    IF IsNullish(value) \/ IsNaNNumber(value) THEN NotAvailable
    ELSE LET numValue == ToNumber(value).n
         IN  IF numValue < 0
             THEN <<"(">> \o toFixed(Abs(numValue), 1) \o <<"%", ")">>
             ELSE toFixed(numValue, 1) \o <<"%">>

formatPERatio(value) ==
    IF IsNullish(value) \/ IsNaNNumber(value) THEN NotAvailable
    ELSE LET numValue == ToNumber(value).n
         IN  IF numValue <= 0 \/ numValue > 1000 * Unit THEN NotAvailable
             ELSE toFixed(numValue, 1)

----------------------------------------------------------------------------
(* BackendVendor *)

BackendFields ==
    {"id", "name", "symbol", "vendorType", "industry", "marketCap",
     "profitMargin", "revenue", "weekHigh52", "weekLow52", "currentPrice",
     "risk", "riskScore", "financialHealth", "marketStability",
     "growthProspects", "peRatio", "beta", "roe", "debtToEquity",
     "lastUpdated", "quarterlyRevenue"}

\* A value handed to the mapper as a backend record: null, undefined, or an
\* object.  f gives the object's properties (Undefined: the property is
\* missing); reading a property in trap throws (an accessor that throws).
NullRecord ==
    [t |-> "null", f |-> [k \in BackendFields |-> Undefined], trap |-> {}]
UndefinedRecord ==
    [t |-> "undefined", f |-> [k \in BackendFields |-> Undefined], trap |-> {}]
Object(fields) == [t |-> "object", f |-> fields, trap |-> {}]

\* whether evaluating o.k throws
ReadThrows(o, k) == o.t \in {"null", "undefined"} \/ k \in o.trap

----------------------------------------------------------------------------
(* mapBackendVendorToFrontend *)

\* the properties the try block reads
TryReads == BackendFields

\* the properties the catch block reads
CatchReads == {"symbol", "name"}

\* the record the try block returns
MappedRecord(bv) ==
    [id |-> Or(bv.f["id"], Num(0)),
     symbol |-> safeString(bv.f["symbol"], NotAvailable),
     name |-> safeString(bv.f["name"], NotAvailable),
     industry |-> IF bv.f["industry"] = Str(Sensors)
                  THEN Str(Sensors) ELSE Str(Materials),
     vendorType |-> Or(bv.f["vendorType"], Str(MaterialsSupplier)),
     marketCap |-> safeNumber(Divide(bv.f["marketCap"], OneBillion), 1),
     revenue |-> safeNumber(Divide(bv.f["revenue"], OneBillion), 1),
     profitMargin |-> safeNumber(bv.f["profitMargin"], 1),
     peRatio |-> safeNumber(bv.f["peRatio"], 1),
     riskLevel |-> Or(bv.f["risk"], Str(medium)),
     quarterlyRevenue |-> safeArray(bv.f["quarterlyRevenue"]),
     weekHigh52 |-> safeNumber(bv.f["weekHigh52"], 1),
     weekLow52 |-> safeNumber(bv.f["weekLow52"], 1),
     lastUpdated |-> safeString(bv.f["lastUpdated"], NowISO),
     currentPrice |-> safeNumber(bv.f["currentPrice"], 1),
     stockPrice |-> safeNumber(bv.f["currentPrice"], 1),
     riskScore |-> MathRound(safeNumber(bv.f["riskScore"], 1)),
     financialHealth |-> MathRound(safeNumber(bv.f["financialHealth"], 1)),
     marketStability |-> MathRound(safeNumber(bv.f["marketStability"], 1)),
     growthProspects |-> MathRound(safeNumber(bv.f["growthProspects"], 1)),
     beta |-> safeNumber(bv.f["beta"], 3),
     roe |-> safeNumber(bv.f["roe"], 1),
     debtToEquity |-> safeNumber(bv.f["debtToEquity"], 2)]

\* the "safe fallback vendor" the catch block returns
FallbackRecord(bv) ==
    [id |-> Num(0),
     symbol |-> safeString(bv.f["symbol"], UNKNOWN),
     name |-> safeString(bv.f["name"], UnknownVendor),
     industry |-> Str(Materials),
     vendorType |-> Str(MaterialsSupplier),
     marketCap |-> Num(0),
     revenue |-> Num(0),
     profitMargin |-> Num(0),
     peRatio |-> Num(0),
     riskLevel |-> Str(medium),
     quarterlyRevenue |-> Arr(<<>>),
     weekHigh52 |-> Num(0),
     weekLow52 |-> Num(0),
     lastUpdated |-> Str(NowISO),
     currentPrice |-> Num(0),
     stockPrice |-> Num(0),
     riskScore |-> Num(50 * Unit),
     financialHealth |-> Num(50 * Unit),
     marketStability |-> Num(50 * Unit),
     growthProspects |-> Num(50 * Unit),
     beta |-> Num(1 * Unit),
     roe |-> Num(0),
     debtToEquity |-> Num(0)]

\* whether the try block throws on bv
TryThrows(bv) == \E k \in TryReads : ReadThrows(bv, k)

\* whether the catch block, once entered, throws on bv
CatchThrows(bv) == \E k \in CatchReads : ReadThrows(bv, k)

\* The outcome of mapBackendVendorToFrontend(bv): thrown says the call ended
\* in an exception, and value is the record returned otherwise.
mapBackendVendorToFrontend(bv) ==
    IF ~TryThrows(bv) THEN [thrown |-> FALSE, value |-> MappedRecord(bv)]
    ELSE IF ~CatchThrows(bv) THEN [thrown |-> FALSE, value |-> FallbackRecord(bv)]
    ELSE [thrown |-> TRUE, value |-> FallbackRecord(NullRecord)]

\* The outcome of mapBackendVendorsToFrontend(list): Array.prototype.map
\* ends with the first exception its callback raises.
mapBackendVendorsToFrontend(list) ==
    LET each == [i \in 1..Len(list) |-> mapBackendVendorToFrontend(list[i])]
    IN  IF \E i \in 1..Len(list) : each[i].thrown
        THEN [thrown |-> TRUE, value |-> <<>>]
        ELSE [thrown |-> FALSE, value |-> [i \in 1..Len(list) |-> each[i].value]]

----------------------------------------------------------------------------
(* Backend records the model draws its inputs from *)

VendorTEL ==
    Object([id |-> Num(1 * Unit),
            name |-> Str(<<"T", "E", " ", "C", "o", "n", "n">>),
            symbol |-> Str(<<"T", "E", "L">>),
            vendorType |-> Str(SensorSupplier),
            industry |-> Str(Sensors),
            marketCap |-> Num(45349 * Unit),
            profitMargin |-> Num(12500),
            revenue |-> Num(16000 * Unit),
            weekHigh52 |-> Num(159980),
            weekLow52 |-> Num(115000),
            currentPrice |-> Num(150250),
            risk |-> Str(low),
            riskScore |-> Num(78400),
            financialHealth |-> Num(80000),
            marketStability |-> Num(75500),
            growthProspects |-> Num(60000),
            peRatio |-> Num(22400),
            beta |-> Num(1234),
            roe |-> Num(15200),
            debtToEquity |-> Num(456),
            lastUpdated |-> Str(<<"t", "1">>),
            quarterlyRevenue |-> Arr(<<4000, 4100>>)])

VendorDD ==
    Object([id |-> Num(3 * Unit),
            name |-> Str(<<"D", "u", "P", "o", "n", "t">>),
            symbol |-> Str(<<"D", "D">>),
            vendorType |-> Str(MaterialsSupplier),
            industry |-> Str(<<"C", "h", "e", "m", "i", "c", "a", "l", "s">>),
            marketCap |-> Num(30100 * Unit),
            profitMargin |-> Num(-5250),
            revenue |-> Num(12000 * Unit),
            weekHigh52 |-> Num(85000),
            weekLow52 |-> Num(61100),
            currentPrice |-> Num(70000),
            risk |-> Str(high),
            riskScore |-> Num(35000),
            financialHealth |-> Num(40000),
            marketStability |-> Num(45000),
            growthProspects |-> Num(30000),
            peRatio |-> Num(1500 * Unit),
            beta |-> Num(1100),
            roe |-> Num(-3000),
            debtToEquity |-> Num(1250),
            lastUpdated |-> Str(<<"t", "2">>),
            quarterlyRevenue |-> Undefined])

\* {}: an object with no property at all
EmptyObject == Object([k \in BackendFields |-> Undefined])

\* an object whose marketCap accessor throws
TrappedTEL == [VendorTEL EXCEPT !.trap = {"marketCap"}]
\* an object without symbol whose revenue accessor throws
TrappedNoSymbol ==
    [t |-> "object", f |-> [VendorDD.f EXCEPT !["symbol"] = Undefined],
     trap |-> {"revenue"}]
\* an object whose symbol accessor throws
TrappedSymbol == [VendorDD EXCEPT !.trap = {"symbol"}]

ListElements ==
    {VendorTEL, VendorDD, NullRecord, UndefinedRecord, EmptyObject,
     TrappedTEL, TrappedNoSymbol, TrappedSymbol}

\* base with the fields of g's domain replaced by g's values (null, or
\* Undefined for a missing property)
Degrade(base, g) ==
    Object([k \in BackendFields |->
               IF k \in DOMAIN g THEN g[k] ELSE base.f[k]])

\* nothing replaced, or one field null or missing
DegradationSteps ==
    {[x \in {} |-> Undefined]}
    \cup {[x \in {field} |-> v] :
             field \in BackendFields, v \in {Undefined, Null}}

RECURSIVE DegradedUpTo(_, _)
\* the records of bases with at most k of their fields null or missing
DegradedUpTo(bases, k) ==
    IF k = 0 THEN bases
    ELSE {Degrade(r, g) : r \in DegradedUpTo(bases, k - 1),
                          g \in DegradationSteps}

DegradedRecords ==
    DegradedUpTo({VendorTEL, VendorDD}, MaxMissing)
    \cup {EmptyObject, Object([k \in BackendFields |-> Null])}

RECURSIVE ListsUpTo(_, _)
\* the sequences over S of length at most k
ListsUpTo(S, k) ==
    IF k = 0 THEN {<<>>}
    ELSE LET P == ListsUpTo(S, k - 1)
         IN  P \cup {Append(l, x) : l \in P, x \in S}

\* records whose risk is a string other than the three the type names
VendorUpperCaseRisk ==
    Degrade(VendorDD, [k \in {"risk"} |-> Str(<<"H", "I", "G", "H">>)])
VendorCriticalRisk ==
    Degrade(VendorTEL,
            [k \in {"risk"} |->
                Str(<<"c", "r", "i", "t", "i", "c", "a", "l">>)])
VendorEmptyRisk == Degrade(VendorTEL, [k \in {"risk"} |-> Str(<<>>)])
OtherRiskRecords ==
    {VendorUpperCaseRisk, VendorCriticalRisk, VendorEmptyRisk}

MapInputs ==
    {<<r>> : r \in DegradedRecords}
    \cup {<<r>> : r \in OtherRiskRecords}
    \cup ListsUpTo(ListElements, MaxListLen)

----------------------------------------------------------------------------
(* Strings: toLowerCase, includes, localeCompare *)

Uppercase ==
    <<"A", "B", "C", "D", "E", "F", "G", "H", "I", "J", "K", "L", "M",
      "N", "O", "P", "Q", "R", "S", "T", "U", "V", "W", "X", "Y", "Z">>
Lowercase ==
    <<"a", "b", "c", "d", "e", "f", "g", "h", "i", "j", "k", "l", "m",
      "n", "o", "p", "q", "r", "s", "t", "u", "v", "w", "x", "y", "z">>
\* the other characters of the model, in collation order
Symbols == <<" ", "-", "/", ".", "0", "1", "2", "3", "4", "5", "6", "7", "8", "9">>

IsUpper(c) == \E i \in 1..Len(Uppercase) : Uppercase[i] = c
IsLower(c) == \E i \in 1..Len(Lowercase) : Lowercase[i] = c
PositionIn(seq, c) == CHOOSE i \in 1..Len(seq) : seq[i] = c

LowerChar(c) == IF IsUpper(c) THEN Lowercase[PositionIn(Uppercase, c)] ELSE c

\* s.toLowerCase()
toLowerCase(s) == [i \in 1..Len(s) |-> LowerChar(s[i])]

\* haystack.includes(needle)
includes(haystack, needle) ==
    \E i \in 0..(Len(haystack) - Len(needle)) :
        SubSeq(haystack, i + 1, i + Len(needle)) = needle

\* the primary collation weight of a character: symbols and digits before
\* letters, a letter's case ignored
PrimaryWeight(c) ==
    IF IsUpper(c) \/ IsLower(c)
    THEN Len(Symbols) + PositionIn(Lowercase, LowerChar(c))
    ELSE PositionIn(Symbols, c)

RECURSIVE ComparePrimary(_, _, _)
\* the sign of the first difference of primary weights from position i on
ComparePrimary(x, y, i) ==
    IF i > Len(x) /\ i > Len(y) THEN 0
    ELSE IF i > Len(x) THEN -1
    ELSE IF i > Len(y) THEN 1
    ELSE IF PrimaryWeight(x[i]) < PrimaryWeight(y[i]) THEN -1
    ELSE IF PrimaryWeight(x[i]) > PrimaryWeight(y[i]) THEN 1
    ELSE ComparePrimary(x, y, i + 1)

RECURSIVE CompareCase(_, _, _)
\* for strings of equal primary weights: lower case sorts before upper case
CompareCase(x, y, i) ==
    IF i > Len(x) THEN 0
    ELSE IF x[i] = y[i] THEN CompareCase(x, y, i + 1)
    ELSE IF IsLower(x[i]) THEN -1 ELSE 1

\* x.localeCompare(y): negative, zero or positive
localeCompare(x, y) ==
    LET p == ComparePrimary(x, y, 1)
    IN  IF p # 0 THEN p ELSE CompareCase(x, y, 1)

----------------------------------------------------------------------------
(* ComparisonTable: filteredAndSortedVendors *)

FilterAll == <<"a", "l", "l">>
FilterSensors == <<"s", "e", "n", "s", "o", "r", "s">>
FilterMaterials == <<"m", "a", "t", "e", "r", "i", "a", "l", "s">>

FilterKeeps_CaseSensitive(vendor, search, typeFilter, riskFilter) ==
    LET matchesSearch ==
            \/ includes(vendor.name.s, search)
            \/ includes(vendor.symbol.s, search)
            \/ includes(vendor.industry.s, search)
        typeMatch ==
            \/ typeFilter = FilterSensors /\ vendor.industry = Str(Sensors)
            \/ /\ typeFilter = FilterMaterials
               /\ vendor.industry \in {Str(Materials), Str(Plastics)}
    IN  IF search # <<>> /\ ~matchesSearch THEN FALSE
        ELSE IF typeFilter # FilterAll /\ ~typeMatch THEN FALSE
        ELSE IF riskFilter # FilterAll /\ vendor.riskLevel # Str(riskFilter)
        THEN FALSE
        ELSE TRUE

\* the callback of vendors.filter
FilterKeeps(vendor, search, typeFilter, riskFilter) ==
    LET searchLower == toLowerCase(search)
        matchesSearch ==
            \/ includes(toLowerCase(vendor.name.s), searchLower)
            \/ includes(toLowerCase(vendor.symbol.s), searchLower)
            \/ includes(toLowerCase(vendor.industry.s), searchLower)
        typeMatch ==
            \/ typeFilter = FilterSensors /\ vendor.industry = Str(Sensors)
            \/ /\ typeFilter = FilterMaterials
               /\ vendor.industry \in {Str(Materials), Str(Plastics)}
    IN  IF search # <<>> /\ ~matchesSearch THEN FALSE
        ELSE IF typeFilter # FilterAll /\ ~typeMatch THEN FALSE
        ELSE IF riskFilter # FilterAll /\ vendor.riskLevel # Str(riskFilter)
        THEN FALSE
        ELSE TRUE

RECURSIVE FilterFrom(_, _, _, _, _)
\* vendors.filter(...) from position i on
FilterFrom(list, i, search, typeFilter, riskFilter) ==
    IF i > Len(list) THEN <<>>
    ELSE (IF FilterKeeps(list[i], search, typeFilter, riskFilter)
          THEN <<list[i]>> ELSE <<>>)
         \o FilterFrom(list, i + 1, search, typeFilter, riskFilter)

Sign(x) == IF x < 0 THEN -1 ELSE IF x > 0 THEN 1 ELSE 0

SortCompare_IgnoresOrder(x, y, field, order) ==
    LET aValue == x[field]
        bValue == y[field]
    IN  IF TypeOf(aValue) = "number" /\ TypeOf(bValue) = "number"
        THEN IF aValue.t = "NaN" \/ bValue.t = "NaN" THEN 0
             ELSE Sign(bValue.n - aValue.n)
        ELSE IF TypeOf(aValue) = "string" /\ TypeOf(bValue) = "string"
        THEN localeCompare(bValue.s, aValue.s)
        ELSE 0

\* the comparator handed to sort, as the sign sort reads (NaN counts as 0)
SortCompare(x, y, field, order) ==
    LET aValue == x[field]
        bValue == y[field]
    IN  IF TypeOf(aValue) = "number" /\ TypeOf(bValue) = "number"
        THEN IF aValue.t = "NaN" \/ bValue.t = "NaN" THEN 0
             ELSE IF order = "asc" THEN Sign(aValue.n - bValue.n)
             ELSE Sign(bValue.n - aValue.n)
        ELSE IF TypeOf(aValue) = "string" /\ TypeOf(bValue) = "string"
        THEN IF order = "asc" THEN localeCompare(aValue.s, bValue.s)
             ELSE localeCompare(bValue.s, aValue.s)
        ELSE 0

RECURSIVE InsertStable_BeforeEquals(_, _, _, _, _)
InsertStable_BeforeEquals(sorted, x, i, field, order) ==
    IF i > Len(sorted) THEN Append(sorted, x)
    ELSE IF SortCompare(sorted[i], x, field, order) >= 0
    THEN SubSeq(sorted, 1, i - 1) \o <<x>> \o SubSeq(sorted, i, Len(sorted))
    ELSE InsertStable_BeforeEquals(sorted, x, i + 1, field, order)

RECURSIVE InsertStable(_, _, _, _, _)
\* sorted with x put before its first element, from position i on, that the
\* comparator orders after x
InsertStable(sorted, x, i, field, order) ==
    IF i > Len(sorted) THEN Append(sorted, x)
    ELSE IF SortCompare(sorted[i], x, field, order) > 0
    THEN SubSeq(sorted, 1, i - 1) \o <<x>> \o SubSeq(sorted, i, Len(sorted))
    ELSE InsertStable(sorted, x, i + 1, field, order)

RECURSIVE SortFrom(_, _, _, _, _)
\* Array.prototype.sort, which is stable: the elements of list from position
\* i on are inserted into sorted one by one
SortFrom(list, i, sorted, field, order) ==
    IF i > Len(list) THEN sorted
    ELSE SortFrom(list, i + 1, InsertStable(sorted, list[i], 1, field, order),
                  field, order)

\* the value of the useMemo: the filtered list, sorted
filteredAndSortedVendors(list, search, typeFilter, riskFilter, field, order) ==
    SortFrom(FilterFrom(list, 1, search, typeFilter, riskFilter), 1, <<>>,
             field, order)

\* what the table displays in the current state
Displayed ==
    filteredAndSortedVendors(tableVendors, searchTerm, filterType, filterRisk,
                             sortField, sortOrder)

----------------------------------------------------------------------------
(* ComparisonTable: its inputs and handlers *)

\* the columns whose header calls handleSort
SortableFields ==
    {"name", "vendorType", "marketCap", "revenue", "profitMargin", "peRatio",
     "riskLevel"}

\* the vendors the table is given in the model: Sensors, Materials and
\* Plastics vendors with equal market caps and names that differ in case
TableTEL == MappedRecord(VendorTEL)
TableDD == MappedRecord(VendorDD)
TableLYB ==
    [MappedRecord(VendorDD) EXCEPT
        !.symbol = Str(<<"L", "Y", "B">>),
        !.name = Str(<<"d", "u", "p", "o", "n", "t">>),
        !.industry = Str(Plastics),
        !.riskLevel = Str(medium),
        !.marketCap = Num(45300),
        !.profitMargin = Num(12500),
        !.peRatio = Num(8100)]
TablePool == {TableTEL, TableDD, TableLYB}

\* the texts typed into the search box
\* (none; "dU" is in two names; "L" is in a symbol or, failing that, an
\* industry of every vendor of the pool)
SearchTerms == {<<>>, <<"d", "U">>, <<"L">>}

FilterTypes == {FilterAll, FilterSensors, FilterMaterials}
\* the risk select's options the model picks: no filter, and one level
FilterRisks == {FilterAll, high}

\* the table's state when the component is not under study
TableIdle ==
    /\ tableVendors = <<>>
    /\ sortField = "marketCap"
    /\ sortOrder = "desc"
    /\ filterType = FilterAll
    /\ filterRisk = FilterAll
    /\ searchTerm = <<>>
    /\ shownBefore = <<>>

\* the Input's onChange
SetSearchTerm ==
    /\ \E text \in SearchTerms : searchTerm' = text
    /\ shownBefore' = <<>>
    /\ UNCHANGED <<tableVendors, sortField, sortOrder, filterType, filterRisk,
                   mapVars, pageVars, recVars, sideVars>>

\* the type Select's onValueChange
SetFilterType ==
    /\ \E option \in FilterTypes : filterType' = option
    /\ shownBefore' = <<>>
    /\ UNCHANGED <<tableVendors, sortField, sortOrder, filterRisk, searchTerm,
                   mapVars, pageVars, recVars, sideVars>>

\* the risk Select's onValueChange
SetFilterRisk ==
    /\ \E option \in FilterRisks : filterRisk' = option
    /\ shownBefore' = <<>>
    /\ UNCHANGED <<tableVendors, sortField, sortOrder, filterType, searchTerm,
                   mapVars, pageVars, recVars, sideVars>>

handleSort_KeepsOrder ==
    /\ \E field \in SortableFields :
           IF sortField = field
           THEN /\ sortOrder' = IF sortOrder = "asc" THEN "desc" ELSE "asc"
                /\ sortField' = sortField
                /\ shownBefore' = <<Displayed>>
           ELSE /\ sortField' = field
                /\ sortOrder' = sortOrder
                /\ shownBefore' = <<>>
    /\ UNCHANGED <<tableVendors, filterType, filterRisk, searchTerm,
                   mapVars, pageVars, recVars, sideVars>>

handleSort_AscThenDefault ==
    /\ \E field \in SortableFields :
           IF sortField = field
           THEN /\ sortOrder' = IF sortOrder = "asc" THEN "desc" ELSE "asc"
                /\ sortField' = IF sortOrder = "asc" THEN "marketCap"
                                ELSE sortField
                /\ shownBefore' = <<Displayed>>
           ELSE /\ sortField' = field
                /\ sortOrder' = "desc"
                /\ shownBefore' = <<>>
    /\ UNCHANGED <<tableVendors, filterType, filterRisk, searchTerm,
                   mapVars, pageVars, recVars, sideVars>>

\* a click on a column header
handleSort ==
    /\ \E field \in SortableFields :
           IF sortField = field
           THEN /\ sortOrder' = IF sortOrder = "asc" THEN "desc" ELSE "asc"
                /\ sortField' = sortField
                /\ shownBefore' = <<Displayed>>
           ELSE /\ sortField' = field
                /\ sortOrder' = "desc"
                /\ shownBefore' = <<>>
    /\ UNCHANGED <<tableVendors, filterType, filterRisk, searchTerm,
                   mapVars, pageVars, recVars, sideVars>>

----------------------------------------------------------------------------
(* ComparisonTable: the filter header *)

\* [filterType, filterRisk, searchTerm].filter(value => value !== '' &&
\* value !== 'all').length
activeFilterCount ==
    LET values == <<filterType, filterRisk, searchTerm>>
    IN  Cardinality({i \in 1..3 : values[i] # <<>> /\ values[i] # FilterAll})

\* the texts typed into the search box when the header is under study:
\* those of SearchTerms, and the word "all"
SearchTexts == SearchTerms \cup {<<"a", "l", "l">>}

\* the Input's onChange, for the texts of SearchTexts
TypeSearchText ==
    /\ \E text \in SearchTexts : searchTerm' = text
    /\ shownBefore' = <<>>
    /\ UNCHANGED <<tableVendors, sortField, sortOrder, filterType, filterRisk,
                   mapVars, pageVars, recVars, sideVars>>

\* a click on Clear, which is rendered when activeFilterCount > 0
clearAllFilters ==
    /\ activeFilterCount > 0
    /\ filterType' = FilterAll
    /\ filterRisk' = FilterAll
    /\ searchTerm' = <<>>
    /\ shownBefore' = <<>>
    /\ UNCHANGED <<tableVendors, sortField, sortOrder, mapVars, pageVars,
                   recVars, sideVars>>

----------------------------------------------------------------------------
(* FinancialRecommendations: generateRecommendations *)

\* o?.k for an optional object o (<<>>: undefined, <<r>>: the object r)
OptionalField(o, k) == IF o = <<>> THEN Undefined ELSE o[1][k]

\* the properties of a VendorData record that generateRecommendations
\* reads: those of the mapped record r, and the optional financialRatios,
\* riskScores and financialStability
WithFinancials(r, ratios, scores, stability) ==
    [symbol |-> r.symbol,
     industry |-> r.industry,
     profitMargin |-> r.profitMargin,
     growthProspects |-> r.growthProspects,
     debtToEquity |-> r.debtToEquity,
     financialRatios |-> ratios,
     riskScores |-> scores,
     financialStability |-> stability]

\* a > b and a < b on numbers (false when either is NaN)
Greater(a, b) == a.t = "number" /\ b.t = "number" /\ a.n > b.n
Less(a, b) == a.t = "number" /\ b.t = "number" /\ a.n < b.n

\* (v.financialRatios?.debt_to_equity || 0) > 1.0
HighDebt(v) ==
    Greater(Or(OptionalField(v.financialRatios, "debt_to_equity"), Num(0)),
            Num(1 * Unit))

LowLiquidity_DefaultsToOne(v) ==
    Less(Or(OptionalField(v.financialRatios, "current_ratio"), Num(1 * Unit)),
         Num(1 * Unit))

\* (v.financialRatios?.current_ratio || 0) < 1.0
LowLiquidity(v) ==
    Less(Or(OptionalField(v.financialRatios, "current_ratio"), Num(0)),
         Num(1 * Unit))

\* (v.financialRatios?.cash_ratio || 0) < 0.05
LowCash(v) ==
    Less(Or(OptionalField(v.financialRatios, "cash_ratio"), Num(0)),
         Num(Unit \div 20))

\* v.profitMargin < 0
Unprofitable(v) == Less(v.profitMargin, Num(0))

\* the three conditions of the "optimal partners" filter
FinanciallyStable(v) ==
    /\ Greater(Or(Or(OptionalField(v.riskScores, "financial_stability"),
                     v.financialStability), Num(0)), Num(75 * Unit))
    /\ Less(Or(OptionalField(v.financialRatios, "debt_to_equity"), Num(0)),
            Num((6 * Unit) \div 10))
    /\ Greater(v.profitMargin, Num(5 * Unit))

\* (v.riskScores?.growth_prospects || v.growthProspects || 0) < 40
LowGrowth(v) ==
    Less(Or(Or(OptionalField(v.riskScores, "growth_prospects"),
               v.growthProspects), Num(0)), Num(40 * Unit))

\* list.map(v => v.symbol)
SymbolsOf(list) == [i \in 1..Len(list) |-> list[i].symbol.s]

RECURSIVE industryBreakdown(_, _, _)
\* vendors.reduce(...) from position i on: acc holds the [industry, count]
\* entries so far, in the order the industries were first met
industryBreakdown(list, i, acc) ==
    IF i > Len(list) THEN acc
    ELSE LET key == list[i].industry.s
             at == {j \in 1..Len(acc) : acc[j][1] = key}
         IN  industryBreakdown(list, i + 1,
                 IF at = {} THEN Append(acc, <<key, 1>>)
                 ELSE [j \in 1..Len(acc) |->
                          IF j \in at THEN <<key, acc[j][2] + 1>>
                          ELSE acc[j]])

RECURSIVE ReduceDominant_KeepsSmaller(_, _, _)
ReduceDominant_KeepsSmaller(entries, i, a) ==
    IF i > Len(entries) THEN a
    ELSE ReduceDominant_KeepsSmaller(entries, i + 1,
             IF a[2] < entries[i][2] THEN a ELSE entries[i])

RECURSIVE ReduceDominant(_, _, _)
\* entries.reduce((a, b) => a[1] > b[1] ? a : b) from position i on
ReduceDominant(entries, i, a) ==
    IF i > Len(entries) THEN a
    ELSE ReduceDominant(entries, i + 1,
                        IF a[2] > entries[i][2] THEN a ELSE entries[i])

dominantIndustry(list) ==
    LET entries == industryBreakdown(list, 1, <<>>)
    IN  IF Len(entries) > 0 THEN ReduceDominant(entries, 2, entries[1])
        ELSE <<<<>>, 0>>

\* ((count / total) * 100).toFixed(0), for total > 0
PercentOf(count, total) == (200 * count + total) \div (2 * total)

\* the object pushed for a rule: selected are the vendors it lists, count
\* and percent the numbers its description quotes (percent 0: none) and
\* industry the industry it names (<<>>: none)
Recommendation(id, priority, title, selected, percent, industry, action, icon) ==
    [id |-> id,
     priority |-> priority,
     title |-> title,
     description |-> [count |-> Len(selected), percent |-> percent,
                      industry |-> industry],
     affectedVendors |-> SymbolsOf(selected),
     action |-> action,
     icon |-> icon]

\* what each `if (...) recommendations.push(...)` appends
MonitorHighDebt(list) ==
    LET highDebtVendors == SelectSeq(list, HighDebt)
    IN  IF Len(highDebtVendors) > 0
        THEN <<Recommendation("high-debt", "high",
                   "Monitor High-Debt Vendors", highDebtVendors, 0, <<>>,
                   "Consider diversifying away from high-debt vendors",
                   "AlertTriangle")>>
        ELSE <<>>

LiquidityConcerns(list) ==
    LET lowLiquidityVendors == SelectSeq(list, LowLiquidity)
    IN  IF Len(lowLiquidityVendors) > 0
        THEN <<Recommendation("low-liquidity", "high", "Liquidity Concerns",
                   lowLiquidityVendors, 0, <<>>,
                   "Review payment terms", "AlertTriangle")>>
        ELSE <<>>

CashPositionConcerns(list) ==
    LET lowCashVendors == SelectSeq(list, LowCash)
    IN  IF Len(lowCashVendors) > 0
        THEN <<Recommendation("low-cash", "medium", "Cash Position Concerns",
                   lowCashVendors, 0, <<>>,
                   "Monitor quarterly cash flow reports", "AlertCircle")>>
        ELSE <<>>

UnprofitableOperations(list) ==
    LET unprofitableVendors == SelectSeq(list, Unprofitable)
    IN  IF Len(unprofitableVendors) > 0
        THEN <<Recommendation("unprofitable", "high",
                   "Unprofitable Operations", unprofitableVendors, 0, <<>>,
                   "Evaluate long-term viability", "TrendingDown")>>
        ELSE <<>>

OptimalVendorPartners(list) ==
    LET financiallyStableVendors == SelectSeq(list, FinanciallyStable)
    IN  IF Len(financiallyStableVendors) > 0
        THEN <<Recommendation("optimal-partners", "low",
                   "Optimal Vendor Partners", financiallyStableVendors, 0,
                   <<>>, "Consider increasing business allocation",
                   "CheckCircle")>>
        ELSE <<>>

\* vendors.length > 0 && dominantIndustry[1] / vendors.length > 0.7
IndustryConcentrationRisk(list) ==
    LET dominant == dominantIndustry(list)
        InDominant(v) == v.industry.s = dominant[1]
    IN  IF Len(list) > 0 /\ 10 * dominant[2] > 7 * Len(list)
        THEN <<Recommendation("concentration-risk", "medium",
                   "Industry Concentration Risk", SelectSeq(list, InDominant),
                   PercentOf(dominant[2], Len(list)), dominant[1],
                   "Diversify supplier base", "Shield")>>
        ELSE <<>>

LimitedGrowthProspects_AtLeast(list) ==
    LET lowGrowthVendors == SelectSeq(list, LowGrowth)
    IN  IF 10 * Len(lowGrowthVendors) >= 3 * Len(list)
        THEN <<Recommendation("growth-concerns", "medium",
                   "Limited Growth Prospects", lowGrowthVendors,
                   IF Len(list) = 0 THEN 0
                   ELSE PercentOf(Len(lowGrowthVendors), Len(list)), <<>>,
                   "Evaluate vendor innovation capabilities", "TrendingUp")>>
        ELSE <<>>

\* lowGrowthVendors.length > vendors.length * 0.3
LimitedGrowthProspects(list) ==
    LET lowGrowthVendors == SelectSeq(list, LowGrowth)
    IN  IF 10 * Len(lowGrowthVendors) > 3 * Len(list)
        THEN <<Recommendation("growth-concerns", "medium",
                   "Limited Growth Prospects", lowGrowthVendors,
                   PercentOf(Len(lowGrowthVendors), Len(list)), <<>>,
                   "Evaluate vendor innovation capabilities", "TrendingUp")>>
        ELSE <<>>

\* priorityOrder[p]
priorityOrder(p) ==
    CASE p = "high" -> 3
      [] p = "medium" -> 2
      [] p = "low" -> 1

PriorityCompare_Ascending(x, y) ==
    priorityOrder(x.priority) - priorityOrder(y.priority)

\* the comparator of recommendations.sort
PriorityCompare(x, y) == priorityOrder(y.priority) - priorityOrder(x.priority)

RECURSIVE InsertByPriority(_, _, _)
\* sorted with x put before its first element, from position i on, that the
\* comparator orders after x
InsertByPriority(sorted, x, i) ==
    IF i > Len(sorted) THEN Append(sorted, x)
    ELSE IF PriorityCompare(sorted[i], x) > 0
    THEN SubSeq(sorted, 1, i - 1) \o <<x>> \o SubSeq(sorted, i, Len(sorted))
    ELSE InsertByPriority(sorted, x, i + 1)

RECURSIVE SortByPriority(_, _, _)
\* recommendations.sort(...), stable, from position i on
SortByPriority(list, i, sorted) ==
    IF i > Len(list) THEN sorted
    ELSE SortByPriority(list, i + 1, InsertByPriority(sorted, list[i], 1))

\* the recommendations in the order they are pushed
PushedRecommendations(list) ==
    MonitorHighDebt(list) \o LiquidityConcerns(list)
    \o CashPositionConcerns(list) \o UnprofitableOperations(list)
    \o OptimalVendorPartners(list) \o IndustryConcentrationRisk(list)
    \o LimitedGrowthProspects(list)

generateRecommendations(list) ==
    SortByPriority(PushedRecommendations(list), 1, <<>>)

\* what FinancialRecommendations renders for the vendors prop
FinancialRecommendations(list) ==
    LET recommendations == generateRecommendations(list)
    IN  IF Len(recommendations) = 0
        THEN [shows |-> "Excellent Portfolio Health", cards |-> <<>>]
        ELSE [shows |-> "recommendations", cards |-> recommendations]

\* the vendor lists the model renders FinancialRecommendations for are drawn
\* from: a record as the mapper returns it (no financialRatios, no
\* riskScores), and records carrying the optional financial data
PlainVendor == WithFinancials(MappedRecord(VendorDD), <<>>, <<>>, Undefined)
StressedVendor ==
    WithFinancials([MappedRecord(VendorDD) EXCEPT
                       !.symbol = Str(<<"D", "O", "W">>),
                       !.debtToEquity = Num(0)],
                   <<[debt_to_equity |-> Num(1500),
                      current_ratio |-> Num(800),
                      cash_ratio |-> Undefined]>>,
                   <<>>, Undefined)
OptimalVendor ==
    WithFinancials(MappedRecord(VendorTEL),
                   <<[debt_to_equity |-> Num(400),
                      current_ratio |-> Num(2000),
                      cash_ratio |-> Num(200)]>>,
                   <<[financial_stability |-> Num(85 * Unit),
                      growth_prospects |-> Num(70 * Unit)]>>,
                   Undefined)
SoundSensorsVendor ==
    WithFinancials([MappedRecord(VendorTEL) EXCEPT
                       !.symbol = Str(<<"S", "T", "M">>)],
                   <<[debt_to_equity |-> Num(800),
                      current_ratio |-> Num(1500),
                      cash_ratio |-> Num(100)]>>,
                   <<>>, Num(60 * Unit))
SoundMaterialsVendor ==
    WithFinancials([MappedRecord(VendorTEL) EXCEPT
                       !.symbol = Str(<<"L", "Y", "B">>),
                       !.industry = Str(Materials)],
                   <<[debt_to_equity |-> Num(800),
                      current_ratio |-> Num(1500),
                      cash_ratio |-> Num(100)]>>,
                   <<[financial_stability |-> Num(0),
                      growth_prospects |-> Num(0)]>>,
                   Num(90 * Unit))
RecommendationPool ==
    {PlainVendor, StressedVendor, OptimalVendor, SoundSensorsVendor,
     SoundMaterialsVendor}

\* the component's state when it is not under study
RecommendationsIdle ==
    /\ recVendors = <<>>
    /\ recRendered = <<>>

\* VendorCard and VendorDetailModal: the entry of the low/medium/high table
\* that riskLevel selects (<<>>: undefined)
riskIndicator(riskLevel) ==
    CASE riskLevel = Str(low) -> <<[color |-> "bg-emerald-500",
                                    label |-> "Low Risk"]>>
      [] riskLevel = Str(medium) -> <<[color |-> "bg-amber-500",
                                       label |-> "Medium Risk"]>>
      [] riskLevel = Str(high) -> <<[color |-> "bg-red-500",
                                     label |-> "High Risk"]>>
      [] OTHER -> <<>>

----------------------------------------------------------------------------
(* Index: what the backend may answer *)

\* null, for error (a null kpis is <<>>, an object k is <<k>>)
NULL == "<null>"

\* the vendor lists GET /vendors may answer with
VendorResponses ==
    {<<>>, <<VendorTEL, VendorDD>>, <<VendorDD, NullRecord>>,
     <<Degrade(VendorTEL, [k \in {"symbol"} |-> Undefined]),
       Degrade(VendorDD, [k \in {"symbol"} |-> Null])>>}

\* the objects GET /portfolio/kpis may answer with
KPIResponses ==
    {[activeVendors |-> 2, avgRiskScore |-> 60, highRiskVendors |-> 1],
     [activeVendors |-> 1, avgRiskScore |-> 78, highRiskVendors |-> 0]}

\* the messages of the errors a fetch may reject with
ErrorMessages == {"Failed to fetch"}

\* the message of the TypeError the mapper raises on a null record
MappingError == "Cannot read properties of null (reading 'symbol')"

----------------------------------------------------------------------------
(* Rendering *)

\* a.profitMargin > b.profitMargin
MarginGreater(a, b) ==
    a.profitMargin.t = "number" /\ b.profitMargin.t = "number"
    /\ a.profitMargin.n > b.profitMargin.n

RECURSIVE ReduceTop(_, _, _)
\* vendors.reduce((prev, current) => prev.profitMargin > current.profitMargin
\*                                   ? prev : current), from position i
ReduceTop(list, prev, i) ==
    IF i > Len(list) THEN prev
    ELSE ReduceTop(list, IF MarginGreater(prev, list[i]) THEN prev ELSE list[i],
                   i + 1)

\* topPerformer: <<>> stands for null
TopPerformer(list) ==
    IF Len(list) > 0 THEN <<ReduceTop(list, list[1], 2)>> ELSE <<>>

\* The outcome of rendering RiskAnalysisPanel: the Key Insights card guards
\* topPerformer, the last Recommendations item reads topPerformer.symbol.
RiskAnalysisPanel(list) ==
    LET top == TopPerformer(list)
    IN  [thrown |-> top = <<>>,
         insight |-> IF top # <<>> THEN "top performer" ELSE "No data available",
         allocation |-> IF top # <<>> THEN top[1].symbol ELSE Str(<<>>)]

\* The outcome of rendering KPICards: the backend's KPIs when there are any,
\* else figures computed from the list (guarded by vendors.length > 0).
KPICards(list, k) ==
    IF k # <<>>
    THEN [thrown |-> FALSE, source |-> "api", count |-> k[1].activeVendors]
    ELSE [thrown |-> FALSE, source |-> "computed", count |-> Len(list)]

Render_IgnoresVendors(vs, k, loading, err) ==
    IF err # NULL /\ err # "" THEN "error"
    ELSE IF loading THEN "loading"
    ELSE IF KPICards(vs, k).thrown \/ RiskAnalysisPanel(vs).thrown THEN "crashed"
    ELSE "dashboard"

\* What Index renders: "error" is the full-page error view, "loading" the
\* main view with the skeleton, "dashboard" the main view with its sections,
\* "crashed" a render that threw (React unmounts the tree).
Render(vs, k, loading, err) ==
    IF err # NULL /\ err # "" /\ Len(vs) = 0 THEN "error"
    ELSE IF loading THEN "loading"
    ELSE IF KPICards(vs, k).thrown \/ RiskAnalysisPanel(vs).thrown THEN "crashed"
    ELSE "dashboard"

\* A batch of state updates followed by the re-render.  Updates of an
\* unmounted component are dropped.
SetState(vs, k, loading, refreshing, err, vf, kf) ==
    IF view = "crashed"
    THEN UNCHANGED <<vendors, kpis, isLoading, isRefreshing, error,
                     vendorsFrom, kpisFrom, view>>
    ELSE /\ vendors' = vs
         /\ kpis' = k
         /\ isLoading' = loading
         /\ isRefreshing' = refreshing
         /\ error' = err
         /\ vendorsFrom' = vf
         /\ kpisFrom' = kf
         /\ view' = Render(vs, k, loading, err)

\* the Retry button of the error view is rendered and not disabled
RetryEnabled == view = "error" /\ ~isLoading

\* the header's Refresh button is rendered and not disabled: the error view
\* passes isLoading={isRefreshing}, the main view isLoading || isRefreshing
RefreshEnabled ==
    \/ view = "error" /\ ~isRefreshing
    \/ view \in {"loading", "dashboard"} /\ ~(isLoading \/ isRefreshing)

\* the header's Export button is rendered; it is never disabled
ExportEnabled == view # "crashed"

----------------------------------------------------------------------------
(* The components that display one vendor, and the Key Insights card *)

PositiveInfinity == [t |-> "Infinity", n |-> 1, s |-> <<>>, a |-> <<>>]
NegativeInfinity == [t |-> "Infinity", n |-> -1, s |-> <<>>, a |-> <<>>]

\* ((stockPrice - weekLow52) / (weekHigh52 - weekLow52)) * 100, in percent
RangePosition(vendor) ==
    LET above == vendor.stockPrice.n - vendor.weekLow52.n
        width == vendor.weekHigh52.n - vendor.weekLow52.n
        negative == (above < 0) # (width < 0)
    IN  IF width = 0
        THEN IF above = 0 THEN NaN
             ELSE IF above > 0 THEN PositiveInfinity ELSE NegativeInfinity
        ELSE LET whole == (Abs(above) * 100) \div Abs(width)
                 rest == (Abs(above) * 100) % Abs(width)
             IN  Num((IF negative THEN -1 ELSE 1)
                     * (whole * Unit + (rest * Unit) \div Abs(width)))

\* one row of the comparison table
ComparisonTableRow(vendor) ==
    [profitMargin |-> formatPercentage(vendor.profitMargin),
     peRatio |-> formatPERatio(vendor.peRatio)]

\* VendorCard: thrown says the render read a property of an undefined
\* riskIndicator
VendorCard(vendor) ==
    [thrown |-> riskIndicator(vendor.riskLevel) = <<>>,
     profitMargin |-> formatPercentage(vendor.profitMargin),
     peRatio |-> toFixed(vendor.peRatio.n, 1),
     rangeWidth |-> RangePosition(vendor)]

\* VendorDetailModal for a vendor that is not null
VendorDetailModal(vendor) ==
    [thrown |-> riskIndicator(vendor.riskLevel) = <<>>,
     symbol |-> vendor.symbol,
     profitMargin |-> formatPercentage(vendor.profitMargin),
     peRatio |-> toFixed(vendor.peRatio.n, 1),
     rangeWidth |-> RangePosition(vendor),
     rangeLeft |-> RangePosition(vendor)]

\* a.profitMargin < b.profitMargin
MarginLess(a, b) ==
    a.profitMargin.t = "number" /\ b.profitMargin.t = "number"
    /\ a.profitMargin.n < b.profitMargin.n

RECURSIVE ReduceWorst(_, _, _)
\* vendors.reduce((prev, current) => prev.profitMargin < current.profitMargin
\*                                   ? prev : current), from position i
ReduceWorst(list, prev, i) ==
    IF i > Len(list) THEN prev
    ELSE ReduceWorst(list, IF MarginLess(prev, list[i]) THEN prev ELSE list[i],
                     i + 1)

\* worstPerformer: <<>> stands for null
WorstPerformer(list) ==
    IF Len(list) > 0 THEN <<ReduceWorst(list, list[1], 2)>> ELSE <<>>

\* the profit margins of the Key Insights card of RiskAnalysisPanel: Top
\* Performer and Needs Attention (<<>>: "No data available")
KeyInsights(list) ==
    LET top == TopPerformer(list)
        worst == WorstPerformer(list)
    IN  [top |-> IF top = <<>> THEN <<>>
                 ELSE <<toFixed(top[1].profitMargin.n, 1) \o <<"%">>>>,
         worst |-> IF worst = <<>> THEN <<>>
                   ELSE <<toFixed(worst[1].profitMargin.n, 1) \o <<"%">>>>]

\* records with P/E ratios around the limits formatPERatio tests
VendorNegativePE == Degrade(VendorTEL, [k \in {"peRatio"} |-> Num(-3200)])
VendorLimitPE == Degrade(VendorTEL, [k \in {"peRatio"} |-> Num(1000 * Unit)])
OtherRatioRecords == {VendorNegativePE, VendorLimitPE}

\* the properties generateRecommendations reads of a record the mapper
\* returned: a property the record does not have reads as undefined
VendorDataOf(r) ==
    WithFinancials(r,
                   IF "financialRatios" \in DOMAIN r
                   THEN r.financialRatios ELSE <<>>,
                   IF "riskScores" \in DOMAIN r THEN r.riskScores ELSE <<>>,
                   IF "financialStability" \in DOMAIN r
                   THEN r.financialStability ELSE Undefined)

\* what the sections of the dashboard render for the list
RenderedViews(list) ==
    [rows |-> [i \in 1..Len(list) |-> ComparisonTableRow(list[i])],
     cards |-> [i \in 1..Len(list) |-> VendorCard(list[i])],
     modals |-> [i \in 1..Len(list) |-> VendorDetailModal(list[i])],
     insights |-> KeyInsights(list),
     recommendations |->
         FinancialRecommendations([i \in 1..Len(list) |->
                                      VendorDataOf(list[i])])]

\* the components' state when they are not under study
ViewsIdle ==
    /\ viewVendors = <<>>
    /\ viewRendered = <<>>

----------------------------------------------------------------------------
(* Index: loadData *)

IdleLoad == [pc |-> "idle", seq |-> 0, backendVendors |-> <<>>]
IdleRefresh == [pc |-> "idle", seq |-> 0, v |-> <<>>, k |-> <<>>]

\* loadData up to its first await: issued by the mount effect and by Retry
LoadStart ==
    /\ loadOp' = [pc |-> "fetchVendors", seq |-> issued + 1,
                  backendVendors |-> <<>>]
    /\ issued' = issued + 1
    /\ SetState(vendors, kpis, TRUE, isRefreshing, NULL, vendorsFrom, kpisFrom)
    /\ UNCHANGED <<notification, refreshOp, exportOps, downloads, mapVars, tableVars, recVars, sideVars>>

\* a click on Retry
Retry ==
    /\ RetryEnabled
    /\ issued < MaxOps
    /\ LoadStart

\* loadData's catch and finally
LoadCatch(msg) ==
    /\ loadOp' = IdleLoad
    /\ notification' = "Error Loading Data"
    /\ SetState(vendors, kpis, FALSE, isRefreshing, msg, vendorsFrom, kpisFrom)
    /\ UNCHANGED <<issued, refreshOp, exportOps, downloads, mapVars, tableVars, recVars, sideVars>>

LoadSuccess_VendorsOnly(mappedVendors, kpisData) ==
    /\ loadOp' = IdleLoad
    /\ notification' = "Data Loaded Successfully"
    /\ SetState(mappedVendors, kpis, FALSE, isRefreshing, error,
                loadOp.seq, kpisFrom)
    /\ UNCHANGED <<issued, refreshOp, exportOps, downloads, mapVars, tableVars, recVars, sideVars>>

\* loadData after both awaits, and finally
LoadSuccess(mappedVendors, kpisData) ==
    /\ loadOp' = IdleLoad
    /\ notification' = "Data Loaded Successfully"
    /\ SetState(mappedVendors, <<kpisData>>, FALSE, isRefreshing, error,
                loadOp.seq, loadOp.seq)
    /\ UNCHANGED <<issued, refreshOp, exportOps, downloads, mapVars, tableVars, recVars, sideVars>>

\* api.fetchVendors resolves; loadData goes on to await api.fetchKPIs
LoadVendorsResolve ==
    /\ loadOp.pc = "fetchVendors"
    /\ \E list \in VendorResponses :
           loadOp' = [loadOp EXCEPT !.pc = "fetchKPIs", !.backendVendors = list]
    /\ UNCHANGED <<vendors, kpis, isLoading, isRefreshing, error, notification,
                   refreshOp, exportOps, downloads, view, issued, vendorsFrom,
                   kpisFrom, mapVars, tableVars, recVars, sideVars>>

\* api.fetchVendors rejects
LoadVendorsReject ==
    /\ loadOp.pc = "fetchVendors"
    /\ \E msg \in ErrorMessages : LoadCatch(msg)

\* api.fetchKPIs resolves; the vendors are mapped and both states are set
LoadKPIsResolve ==
    /\ loadOp.pc = "fetchKPIs"
    /\ \E kpisData \in KPIResponses :
           LET m == mapBackendVendorsToFrontend(loadOp.backendVendors)
           IN  IF m.thrown THEN LoadCatch(MappingError)
               ELSE LoadSuccess(m.value, kpisData)

\* api.fetchKPIs rejects
LoadKPIsReject ==
    /\ loadOp.pc = "fetchKPIs"
    /\ \E msg \in ErrorMessages : LoadCatch(msg)

----------------------------------------------------------------------------
(* Index: handleRefresh *)

\* a click on Refresh: handleRefresh up to its await of Promise.all
RefreshClick ==
    /\ RefreshEnabled
    /\ issued < MaxOps
    /\ refreshOp' = [pc |-> "pending", seq |-> issued + 1, v |-> <<>>, k |-> <<>>]
    /\ issued' = issued + 1
    /\ SetState(vendors, kpis, isLoading, TRUE, error, vendorsFrom, kpisFrom)
    /\ UNCHANGED <<notification, loadOp, exportOps, downloads, mapVars, tableVars, recVars, sideVars>>

RefreshCatch_ClearsData(msg) ==
    /\ refreshOp' = IdleRefresh
    /\ notification' = "Refresh Failed"
    /\ SetState(<<>>, <<>>, isLoading, FALSE, msg, 0, 0)
    /\ UNCHANGED <<issued, loadOp, exportOps, downloads, mapVars, tableVars, recVars, sideVars>>

\* handleRefresh's catch and finally
RefreshCatch(msg) ==
    /\ refreshOp' = IdleRefresh
    /\ notification' = "Refresh Failed"
    /\ SetState(vendors, kpis, isLoading, FALSE, msg, vendorsFrom, kpisFrom)
    /\ UNCHANGED <<issued, loadOp, exportOps, downloads, mapVars, tableVars, recVars, sideVars>>

\* handleRefresh after Promise.all resolved, and finally
RefreshSuccess(backend, kpisData) ==
    LET m == mapBackendVendorsToFrontend(backend)
    IN  IF m.thrown THEN RefreshCatch(MappingError)
        ELSE /\ refreshOp' = IdleRefresh
             /\ notification' = "Data Refreshed"
             /\ SetState(m.value, <<kpisData>>, isLoading, FALSE, NULL,
                         refreshOp.seq, refreshOp.seq)
             /\ UNCHANGED <<issued, loadOp, exportOps, downloads, mapVars, tableVars, recVars, sideVars>>

\* a fetch of Promise.all resolves while the other is pending
RefreshAwaitOther(op) ==
    /\ refreshOp' = op
    /\ UNCHANGED <<vendors, kpis, isLoading, isRefreshing, error, notification,
                   loadOp, exportOps, downloads, view, issued, vendorsFrom,
                   kpisFrom, mapVars, tableVars, recVars, sideVars>>

\* api.fetchVendors of the refresh resolves
RefreshVendorsResolve ==
    /\ refreshOp.pc = "pending"
    /\ refreshOp.v = <<>>
    /\ \E list \in VendorResponses :
           IF refreshOp.k = <<>>
           THEN RefreshAwaitOther([refreshOp EXCEPT !.v = <<list>>])
           ELSE RefreshSuccess(list, refreshOp.k[1])

\* api.fetchKPIs of the refresh resolves
RefreshKPIsResolve ==
    /\ refreshOp.pc = "pending"
    /\ refreshOp.k = <<>>
    /\ \E kpisData \in KPIResponses :
           IF refreshOp.v = <<>>
           THEN RefreshAwaitOther([refreshOp EXCEPT !.k = <<kpisData>>])
           ELSE RefreshSuccess(refreshOp.v[1], kpisData)

\* api.fetchVendors of the refresh rejects: Promise.all rejects at once
RefreshVendorsReject ==
    /\ refreshOp.pc = "pending"
    /\ refreshOp.v = <<>>
    /\ \E msg \in ErrorMessages : RefreshCatch(msg)

\* api.fetchKPIs of the refresh rejects: Promise.all rejects at once
RefreshKPIsReject ==
    /\ refreshOp.pc = "pending"
    /\ refreshOp.k = <<>>
    /\ \E msg \in ErrorMessages : RefreshCatch(msg)

----------------------------------------------------------------------------
(* Index: handleExport *)

\* a click on Export: handleExport up to its await of api.exportCSV; the
\* closure keeps the vendors of the render the click happened in
ExportClick ==
    /\ ExportEnabled
    /\ Len(exportOps) + Len(downloads) < MaxExports
    /\ exportOps' = Append(exportOps, vendors)
    /\ UNCHANGED <<vendors, kpis, isLoading, isRefreshing, error, notification,
                   loadOp, refreshOp, downloads, view, issued, vendorsFrom,
                   kpisFrom, mapVars, tableVars, recVars, sideVars>>

\* exportOps without its i-th element
RemoveAt(ops, i) == SubSeq(ops, 1, i - 1) \o SubSeq(ops, i + 1, Len(ops))

\* the headers of the CSV the catch block of handleExport builds
FallbackHeaders ==
    <<"Company", "Symbol", "Industry", "Vendor Type", "Market Cap (B)",
      "Revenue (B)", "Profit Margin (%)", "P/E Ratio", "Debt-to-Equity",
      "Current Ratio", "Cash Position (B)", "Financial Health",
      "Market Stability", "Growth Prospects", "Financial Stability",
      "Overall Risk Score", "Risk Level", "Last Updated">>

\* what each value of one of its data rows is computed from
FallbackRow ==
    <<"name", "symbol", "industry", "vendorType", "marketCap", "revenue",
      "profitMargin", "peRatio", "financialRatios.debt_to_equity",
      "financialRatios.current_ratio",
      "balanceSheet.cash_and_cash_equivalents", "financialHealth",
      "marketStability", "growthProspects", "financialStability",
      "riskScore", "riskLevel", "lastUpdated">>

\* the headers of the CSV ExportControls builds
ExportControlsHeaders ==
    <<"Company", "Symbol", "Industry", "Market Cap (B)", "Revenue (B)",
      "Profit Margin (%)", "P/E Ratio", "52W High", "52W Low",
      "Current Price", "Risk Level", "Risk Score", "Beta", "ROE (%)",
      "Debt to Equity">>

\* what each value of one of its data rows is computed from
ExportControlsRow ==
    <<"name", "symbol", "industry", "marketCap", "revenue", "profitMargin",
      "peRatio", "weekHigh52", "weekLow52", "currentPrice", "riskLevel",
      "riskScore", "beta", "roe", "debtToEquity">>

\* ExportControls.handleExportCSV: the CSV downloaded for the vendors prop
handleExportCSV(list) ==
    [header |-> ExportControlsHeaders, fields |-> ExportControlsRow,
     rows |-> Len(list)]

\* the download of the try block: the blob of the API and its toast
ExportTry(closureVendors) ==
    [apiOk |-> TRUE, source |-> "api", rows |-> 0, header |-> <<>>,
     fields |-> <<>>, toast |-> "Export Complete"]

ExportCatch_SameToast(closureVendors) ==
    [apiOk |-> FALSE, source |-> "local", rows |-> Len(closureVendors),
     header |-> FallbackHeaders, fields |-> FallbackRow,
     toast |-> "Export Complete"]

\* the download of the catch block: a CSV with one row per vendor of the
\* closure's list, and its toast
ExportCatch(closureVendors) ==
    [apiOk |-> FALSE, source |-> "local", rows |-> Len(closureVendors),
     header |-> FallbackHeaders, fields |-> FallbackRow,
     toast |-> "Export Complete (Fallback)"]

\* link.click() and toast() with download d, ending the i-th invocation
ExportFinish(i, d) ==
    /\ exportOps' = RemoveAt(exportOps, i)
    /\ downloads' = Append(downloads, d)
    /\ notification' = d.toast
    /\ UNCHANGED <<vendors, kpis, isLoading, isRefreshing, error, loadOp,
                   refreshOp, view, issued, vendorsFrom, kpisFrom, mapVars, tableVars, recVars, sideVars>>

\* api.exportCSV resolves with the blob
ExportResolve ==
    \E i \in 1..Len(exportOps) : ExportFinish(i, ExportTry(exportOps[i]))

\* api.exportCSV rejects
ExportReject ==
    \E i \in 1..Len(exportOps) : ExportFinish(i, ExportCatch(exportOps[i]))

----------------------------------------------------------------------------
(* Index: the vendor detail modal *)

\* vendors.find(v => v.symbol === symbol): the record handleViewDetails
\* selects (<<>>: none)
handleViewDetails(symbol) ==
    LET HasSymbol(v) == v.symbol = symbol
        found == SelectSeq(vendors, HasSymbol)
    IN  IF found = <<>> THEN <<>> ELSE <<found[1]>>

\* the symbols a View Details button may pass: those of the normalized
\* records of every response
ClickableSymbols ==
    UNION {{safeString(list[i].f["symbol"], NotAvailable) :
               i \in 1..Len(list)} : list \in VendorResponses}

\* a click on a row's View Details button: handleViewDetails(symbol).  The
\* table is rendered by the main view once loading is over.
ViewDetailsClick ==
    /\ view = "dashboard"
    /\ \E symbol \in ClickableSymbols :
           LET vendor == handleViewDetails(symbol)
           IN  IF vendor # <<>>
               THEN /\ selectedVendor' = vendor
                    /\ isModalOpen' = TRUE
               ELSE UNCHANGED modalVars
    /\ UNCHANGED <<mapVars, pageVars, tableVars, recVars, cacheVars,
                   viewVars, controlsVars>>

CloseModal_KeepsVendor ==
    /\ isModalOpen
    /\ view # "crashed"
    /\ isModalOpen' = TRUE
    /\ selectedVendor' = <<>>
    /\ UNCHANGED <<mapVars, pageVars, tableVars, recVars, cacheVars,
                   viewVars, controlsVars>>

\* the modal's onClose
CloseModal ==
    /\ isModalOpen
    /\ view # "crashed"
    /\ isModalOpen' = FALSE
    /\ selectedVendor' = <<>>
    /\ UNCHANGED <<mapVars, pageVars, tableVars, recVars, cacheVars,
                   viewVars, controlsVars>>

\* the modal is closed
ModalIdle ==
    /\ selectedVendor = <<>>
    /\ isModalOpen = FALSE

----------------------------------------------------------------------------
(* Index: the background cache timer *)

\* what GET /cache/status may answer with: the value of
\* cache_metrics?.optimization_needed, or "null" for a null body
CacheStatuses == {"null", "no metrics", "needed", "not needed"}

\* optimizeInterval fires: the callback runs up to `await api.getCacheStatus()`.
\* The cleanup of the effect clears the interval when Index is unmounted.
CacheTick ==
    /\ view # "crashed"
    /\ Len(cacheOps) < MaxTicks
    /\ cacheOps' = Append(cacheOps, [pc |-> "getCacheStatus", status |-> "none"])
    /\ UNCHANGED <<mapVars, pageVars, tableVars, recVars, modalVars,
                   viewVars, controlsVars>>

CacheStatusResolve_AlwaysOptimizes ==
    \E i \in 1..Len(cacheOps) :
        /\ cacheOps[i].pc = "getCacheStatus"
        /\ \E status \in CacheStatuses :
               cacheOps' = [cacheOps EXCEPT ![i] = [pc |-> "optimizeCache",
                                                    status |-> status]]
        /\ UNCHANGED <<mapVars, pageVars, tableVars, recVars, modalVars,
                       viewVars, controlsVars>>

\* api.getCacheStatus resolves: the tick goes on to `await
\* api.optimizeCache()` when optimization is needed and ends otherwise (a
\* null body makes the property read throw, which the catch logs)
CacheStatusResolve ==
    \E i \in 1..Len(cacheOps) :
        /\ cacheOps[i].pc = "getCacheStatus"
        /\ \E status \in CacheStatuses :
               IF status = "needed"
               THEN cacheOps' = [cacheOps EXCEPT ![i] = [pc |-> "optimizeCache",
                                                         status |-> status]]
               ELSE cacheOps' = RemoveAt(cacheOps, i)
        /\ UNCHANGED <<mapVars, pageVars, tableVars, recVars, modalVars,
                       viewVars, controlsVars>>

\* api.getCacheStatus rejects: the catch logs a warning
CacheStatusReject ==
    \E i \in 1..Len(cacheOps) :
        /\ cacheOps[i].pc = "getCacheStatus"
        /\ cacheOps' = RemoveAt(cacheOps, i)
        /\ UNCHANGED <<mapVars, pageVars, tableVars, recVars, modalVars,
                       viewVars, controlsVars>>

\* api.optimizeCache resolves or rejects: the tick ends either way
CacheOptimizeSettles ==
    \E i \in 1..Len(cacheOps) :
        /\ cacheOps[i].pc = "optimizeCache"
        /\ cacheOps' = RemoveAt(cacheOps, i)
        /\ UNCHANGED <<mapVars, pageVars, tableVars, recVars, modalVars,
                       viewVars, controlsVars>>

\* no tick is in flight
CacheIdle == cacheOps = <<>>

----------------------------------------------------------------------------
(* ExportControls *)

\* both buttons carry disabled={isCsvExporting || isReportGenerating}
ButtonsDisabled == isCsvExporting \/ isReportGenerating

\* the clicks made so far: a file or a caught exception, or a handler that
\* still awaits its timer
ClicksMade ==
    Len(controlsFiles)
    + Cardinality({i \in 1..Len(controlsOps) :
                      controlsOps[i] \in {"csv", "report"}})

\* a click on Export to CSV: handleExportCSV up to its await
ExportCSVClick ==
    /\ ~ButtonsDisabled
    /\ ClicksMade < MaxClicks
    /\ isCsvExporting' = TRUE
    /\ controlsOps' = Append(controlsOps, "csv")
    /\ UNCHANGED <<controlsVendors, isReportGenerating, csvExportComplete,
                   reportComplete, controlsFiles, mapVars, pageVars,
                   tableVars, recVars, modalVars, cacheVars, viewVars>>

ExportReportClick_NeverDisabled ==
    /\ ClicksMade < MaxClicks
    /\ isReportGenerating' = TRUE
    /\ controlsOps' = Append(controlsOps, "report")
    /\ UNCHANGED <<controlsVendors, isCsvExporting, csvExportComplete,
                   reportComplete, controlsFiles, mapVars, pageVars,
                   tableVars, recVars, modalVars, cacheVars, viewVars>>

\* a click on Generate Report: handleExportReport up to its await
ExportReportClick ==
    /\ ~ButtonsDisabled
    /\ ClicksMade < MaxClicks
    /\ isReportGenerating' = TRUE
    /\ controlsOps' = Append(controlsOps, "report")
    /\ UNCHANGED <<controlsVendors, isCsvExporting, csvExportComplete,
                   reportComplete, controlsFiles, mapVars, pageVars,
                   tableVars, recVars, modalVars, cacheVars, viewVars>>

\* handleExportCSV after its await: the try block downloads the CSV, sets
\* csvExportComplete and starts the timer that resets it, unless the
\* download throws; finally clears isCsvExporting
ExportCSVFinish ==
    \E i \in 1..Len(controlsOps) :
        /\ controlsOps[i] = "csv"
        /\ isCsvExporting' = FALSE
        /\ \E threw \in BOOLEAN :
               IF threw
               THEN /\ controlsOps' = RemoveAt(controlsOps, i)
                    /\ controlsFiles' =
                           Append(controlsFiles,
                                  [kind |-> "csv failed", rows |-> 0])
                    /\ UNCHANGED csvExportComplete
               ELSE /\ controlsOps' =
                           Append(RemoveAt(controlsOps, i), "csv reset")
                    /\ controlsFiles' =
                           Append(controlsFiles,
                                  [kind |-> "csv",
                                   rows |-> handleExportCSV(controlsVendors).rows])
                    /\ csvExportComplete' = TRUE
        /\ UNCHANGED <<controlsVendors, isReportGenerating, reportComplete,
                       mapVars, pageVars, tableVars, recVars, modalVars,
                       cacheVars, viewVars>>

\* handleExportReport after its await, likewise
ExportReportFinish ==
    \E i \in 1..Len(controlsOps) :
        /\ controlsOps[i] = "report"
        /\ isReportGenerating' = FALSE
        /\ \E threw \in BOOLEAN :
               IF threw
               THEN /\ controlsOps' = RemoveAt(controlsOps, i)
                    /\ controlsFiles' =
                           Append(controlsFiles,
                                  [kind |-> "report failed", rows |-> 0])
                    /\ UNCHANGED reportComplete
               ELSE /\ controlsOps' =
                           Append(RemoveAt(controlsOps, i), "report reset")
                    /\ controlsFiles' =
                           Append(controlsFiles,
                                  [kind |-> "report",
                                   rows |-> Len(controlsVendors)])
                    /\ reportComplete' = TRUE
        /\ UNCHANGED <<controlsVendors, isCsvExporting, csvExportComplete,
                       mapVars, pageVars, tableVars, recVars, modalVars,
                       cacheVars, viewVars>>

\* setTimeout(() => setCsvExportComplete(false), 3000) fires
CsvCompleteReset ==
    \E i \in 1..Len(controlsOps) :
        /\ controlsOps[i] = "csv reset"
        /\ controlsOps' = RemoveAt(controlsOps, i)
        /\ csvExportComplete' = FALSE
        /\ UNCHANGED <<controlsVendors, isCsvExporting, isReportGenerating,
                       reportComplete, controlsFiles, mapVars, pageVars,
                       tableVars, recVars, modalVars, cacheVars, viewVars>>

\* setTimeout(() => setReportComplete(false), 3000) fires
ReportCompleteReset ==
    \E i \in 1..Len(controlsOps) :
        /\ controlsOps[i] = "report reset"
        /\ controlsOps' = RemoveAt(controlsOps, i)
        /\ reportComplete' = FALSE
        /\ UNCHANGED <<controlsVendors, isCsvExporting, isReportGenerating,
                       csvExportComplete, controlsFiles, mapVars, pageVars,
                       tableVars, recVars, modalVars, cacheVars, viewVars>>

\* the component's state when it is not under study
ControlsIdle ==
    /\ controlsVendors = <<>>
    /\ isCsvExporting = FALSE
    /\ isReportGenerating = FALSE
    /\ csvExportComplete = FALSE
    /\ reportComplete = FALSE
    /\ controlsOps = <<>>
    /\ controlsFiles = <<>>

\* the components outside Index's data flow, not under study
SideIdle ==
    /\ ModalIdle
    /\ CacheIdle
    /\ ViewsIdle
    /\ ControlsIdle

----------------------------------------------------------------------------
(* The page: Index from its mount on *)

\* The state after the mount effect ran loadData up to its first await.
PageInit ==
    /\ vendors = <<>>
    /\ kpis = <<>>
    /\ isLoading = TRUE
    /\ isRefreshing = FALSE
    /\ error = NULL
    /\ notification = ""
    /\ loadOp = [pc |-> "fetchVendors", seq |-> 1, backendVendors |-> <<>>]
    /\ refreshOp = IdleRefresh
    /\ exportOps = <<>>
    /\ downloads = <<>>
    /\ view = "loading"
    /\ issued = 1
    /\ vendorsFrom = 0
    /\ kpisFrom = 0

Init ==
    /\ PageInit
    /\ backendVendors = <<>>
    /\ mapped = <<>>
    /\ TableIdle
    /\ RecommendationsIdle
    /\ SideIdle

\* some fetch of the load in flight settles
LoadResponds ==
    LoadVendorsResolve \/ LoadVendorsReject \/ LoadKPIsResolve \/ LoadKPIsReject

\* some fetch of the refresh in flight settles
RefreshResponds ==
    \/ RefreshVendorsResolve
    \/ RefreshVendorsReject
    \/ RefreshKPIsResolve
    \/ RefreshKPIsReject

\* the export request of some invocation settles
ExportResponds == ExportResolve \/ ExportReject

Next ==
    \/ Retry
    \/ LoadVendorsResolve
    \/ LoadVendorsReject
    \/ LoadKPIsResolve
    \/ LoadKPIsReject
    \/ RefreshClick
    \/ RefreshVendorsResolve
    \/ RefreshVendorsReject
    \/ RefreshKPIsResolve
    \/ RefreshKPIsReject
    \/ ExportClick
    \/ ExportResolve
    \/ ExportReject

Spec == Init /\ [][Next]_vars

\* Every issued fetch eventually resolves or rejects.
FairSpec ==
    /\ Spec
    /\ WF_vars(LoadResponds)
    /\ WF_vars(RefreshResponds)
    /\ WF_vars(ExportResponds)

----------------------------------------------------------------------------
(* The mapper on its own: mapBackendVendorsToFrontend applied to a list *)

MapInit ==
    /\ backendVendors \in MapInputs
    /\ mapped = <<>>
    /\ PageInit
    /\ TableIdle
    /\ RecommendationsIdle
    /\ SideIdle

\* mapBackendVendorsToFrontend(backendVendors)
MapVendors ==
    /\ mapped = <<>>
    /\ mapped' = <<mapBackendVendorsToFrontend(backendVendors)>>
    /\ UNCHANGED <<backendVendors, pageVars, tableVars, recVars, sideVars>>

MapNext == MapVendors

SpecMap == MapInit /\ [][MapNext]_vars

----------------------------------------------------------------------------
(* The comparison table on its own *)

TableInit ==
    /\ tableVendors \in ListsUpTo(TablePool, MaxTableLen)
    /\ sortField = "marketCap"
    /\ sortOrder = "desc"
    /\ filterType = FilterAll
    /\ filterRisk = FilterAll
    /\ searchTerm = <<>>
    /\ shownBefore = <<>>
    /\ PageInit
    /\ backendVendors = <<>>
    /\ mapped = <<>>
    /\ RecommendationsIdle
    /\ SideIdle

TableNext == SetSearchTerm \/ SetFilterType \/ SetFilterRisk \/ handleSort

SpecTable == TableInit /\ [][TableNext]_vars

----------------------------------------------------------------------------
(* The comparison table with its filter header *)

\* the table is given no vendor, one vendor or the whole pool
FilterInit ==
    /\ tableVendors \in {<<>>, <<TableTEL, TableDD, TableLYB>>}
                            \cup {<<v>> : v \in TablePool}
    /\ sortField = "marketCap"
    /\ sortOrder = "desc"
    /\ filterType = FilterAll
    /\ filterRisk = FilterAll
    /\ searchTerm = <<>>
    /\ shownBefore = <<>>
    /\ PageInit
    /\ backendVendors = <<>>
    /\ mapped = <<>>
    /\ RecommendationsIdle
    /\ SideIdle

FilterNext ==
    \/ TypeSearchText
    \/ SetFilterType
    \/ SetFilterRisk
    \/ handleSort
    \/ clearAllFilters

SpecFilters == FilterInit /\ [][FilterNext]_vars

----------------------------------------------------------------------------
(* FinancialRecommendations on its own *)

RecInit ==
    /\ recVendors \in ListsUpTo(RecommendationPool, MaxRecLen)
    /\ recRendered = <<>>
    /\ PageInit
    /\ backendVendors = <<>>
    /\ mapped = <<>>
    /\ TableIdle
    /\ SideIdle

\* a render of <FinancialRecommendations vendors={recVendors} />
RenderRecommendations ==
    /\ recRendered = <<>>
    /\ recRendered' = <<FinancialRecommendations(recVendors)>>
    /\ UNCHANGED <<recVendors, mapVars, pageVars, tableVars, sideVars>>

RecNext == RenderRecommendations

SpecRec == RecInit /\ [][RecNext]_vars

----------------------------------------------------------------------------
(* The components rendered for a normalized list *)

ViewInit ==
    /\ viewVendors \in
           {mapBackendVendorsToFrontend(list).value :
               list \in MapInputs \cup {<<r>> : r \in OtherRatioRecords}}
    /\ viewRendered = <<>>
    /\ PageInit
    /\ backendVendors = <<>>
    /\ mapped = <<>>
    /\ TableIdle
    /\ RecommendationsIdle
    /\ ModalIdle
    /\ CacheIdle
    /\ ControlsIdle

\* a render of the table rows, the cards, the modal of each vendor, the Key
\* Insights card and the recommendations
RenderViews ==
    /\ viewRendered = <<>>
    /\ viewRendered' = <<RenderedViews(viewVendors)>>
    /\ UNCHANGED <<viewVendors, mapVars, pageVars, tableVars, recVars,
                   modalVars, cacheVars, controlsVars>>

ViewNext == RenderViews

SpecView == ViewInit /\ [][ViewNext]_vars

----------------------------------------------------------------------------
(* The page with its modal *)

ModalNext ==
    \/ Retry
    \/ LoadVendorsResolve
    \/ LoadVendorsReject
    \/ LoadKPIsResolve
    \/ LoadKPIsReject
    \/ RefreshClick
    \/ RefreshVendorsResolve
    \/ RefreshVendorsReject
    \/ RefreshKPIsResolve
    \/ RefreshKPIsReject
    \/ ViewDetailsClick
    \/ CloseModal

SpecModal == Init /\ [][ModalNext]_vars

----------------------------------------------------------------------------
(* The page with its cache timer *)

CacheNext ==
    \/ Retry
    \/ LoadVendorsResolve
    \/ LoadVendorsReject
    \/ LoadKPIsResolve
    \/ LoadKPIsReject
    \/ RefreshClick
    \/ RefreshVendorsResolve
    \/ RefreshVendorsReject
    \/ RefreshKPIsResolve
    \/ RefreshKPIsReject
    \/ CacheTick
    \/ CacheStatusResolve
    \/ CacheStatusReject
    \/ CacheOptimizeSettles
    \/ ViewDetailsClick
    \/ CloseModal

SpecCache == Init /\ [][CacheNext]_vars

----------------------------------------------------------------------------
(* ExportControls on its own *)

ControlsInit ==
    /\ controlsVendors \in ListsUpTo(TablePool, MaxTableLen)
    /\ isCsvExporting = FALSE
    /\ isReportGenerating = FALSE
    /\ csvExportComplete = FALSE
    /\ reportComplete = FALSE
    /\ controlsOps = <<>>
    /\ controlsFiles = <<>>
    /\ PageInit
    /\ backendVendors = <<>>
    /\ mapped = <<>>
    /\ TableIdle
    /\ RecommendationsIdle
    /\ ModalIdle
    /\ CacheIdle
    /\ ViewsIdle

ControlsNext ==
    \/ ExportCSVClick
    \/ ExportReportClick
    \/ ExportCSVFinish
    \/ ExportReportFinish
    \/ CsvCompleteReset
    \/ ReportCompleteReset

SpecControls == ControlsInit /\ [][ControlsNext]_vars

----------------------------------------------------------------------------
(* Claims about the rendered components (SpecView) *)

\* a percentage to one decimal, a negative one in parentheses without sign
ParenthesizedPercent(n) ==
    IF n < 0 THEN <<"(">> \o toFixed(-n, 1) \o <<"%", ")">>
    ELSE toFixed(n, 1) \o <<"%">>

\* C21: every profit margin the dashboard shows (table row, vendor card,
\* detail modal, Top Performer and Needs Attention of the Key Insights card)
\* is the margin to one decimal followed by "%", a negative one in
\* parentheses and without a minus sign.
C21_MarginsParenthesized ==
    viewRendered # <<>> =>
        LET shown == viewRendered[1]
            expected == {ParenthesizedPercent(viewVendors[i].profitMargin.n) :
                            i \in 1..Len(viewVendors)}
        IN  /\ \A i \in 1..Len(viewVendors) :
                   LET text == ParenthesizedPercent(
                                   viewVendors[i].profitMargin.n)
                   IN  /\ shown.rows[i].profitMargin = text
                       /\ shown.cards[i].profitMargin = text
                       /\ shown.modals[i].profitMargin = text
            /\ shown.insights.top # <<>> =>
                   shown.insights.top[1] \in expected
            /\ shown.insights.worst # <<>> =>
                   shown.insights.worst[1] \in expected

\* the P/E text the claim gives: "N/A" outside (0, 1000], else one decimal
PERatioText(n) ==
    IF n <= 0 \/ n > 1000 * Unit THEN NotAvailable ELSE toFixed(n, 1)

\* C22: the comparison table, the vendor card and the detail modal all show
\* "N/A" for a P/E ratio that is <= 0 or > 1000 and the ratio to one decimal
\* otherwise.
C22_PERatioText ==
    viewRendered # <<>> =>
        \A i \in 1..Len(viewVendors) :
            LET text == PERatioText(viewVendors[i].peRatio.n)
            IN  /\ viewRendered[1].rows[i].peRatio = text
                /\ viewRendered[1].cards[i].peRatio = text
                /\ viewRendered[1].modals[i].peRatio = text

\* a defined number between 0 and 100
InRange(position) ==
    position.t = "number" /\ position.n >= 0 /\ position.n <= 100 * Unit

\* C30: for every normalized record the position of the stock price in the
\* 52-week range, as the card and the modal compute it, is a defined number
\* between 0 and 100.
C30_RangePositionDefined ==
    viewRendered # <<>> =>
        \A i \in 1..Len(viewVendors) :
            /\ InRange(viewRendered[1].cards[i].rangeWidth)
            /\ InRange(viewRendered[1].modals[i].rangeWidth)
            /\ InRange(viewRendered[1].modals[i].rangeLeft)

\* the cards with the given id among the recommendations rendered
ViewCardsOf(id) ==
    LET HasId(c) == c.id = id
    IN  SelectSeq(viewRendered[1].recommendations.cards, HasId)

\* C25: for a non-empty list the mapper returned, the recommendations hold
\* low-liquidity and low-cash, each with every vendor affected, and neither
\* high-debt nor optimal-partners; the healthy state shows for the empty
\* list only.
C25_MapperOutputRecommendations ==
    viewRendered # <<>> =>
        LET all == [i \in 1..Len(viewVendors) |-> viewVendors[i].symbol.s]
        IN  /\ viewVendors # <<>> =>
                   /\ Len(ViewCardsOf("low-liquidity")) = 1
                   /\ ViewCardsOf("low-liquidity")[1].affectedVendors = all
                   /\ Len(ViewCardsOf("low-cash")) = 1
                   /\ ViewCardsOf("low-cash")[1].affectedVendors = all
                   /\ ViewCardsOf("high-debt") = <<>>
                   /\ ViewCardsOf("optimal-partners") = <<>>
            /\ (viewRendered[1].recommendations.shows
                    = "Excellent Portfolio Health") <=> (viewVendors = <<>>)

\* rendered for two vendors, one with debt/equity above 1.0 and one with
\* financial health above 75, a margin above 5 and debt/equity below 0.6
C25_Witness ==
    /\ viewRendered # <<>>
    /\ Len(viewVendors) = 2
    /\ \E i \in 1..2 : viewVendors[i].debtToEquity.n > 1 * Unit
    /\ \E i \in 1..2 :
           /\ viewVendors[i].financialHealth.n > 75 * Unit
           /\ viewVendors[i].profitMargin.n > 5 * Unit
           /\ viewVendors[i].debtToEquity.n < (6 * Unit) \div 10

----------------------------------------------------------------------------
(* Claims about the vendor detail modal (SpecModal) *)

\* C26: an open modal always has a vendor selected; a step that opens the
\* modal selects a record of the current list with the symbol clicked, a
\* click that finds none changes nothing, and a step that closes the modal
\* clears the selection in the same step.
C26_OpenModalHasVendor ==
    /\ [](isModalOpen => selectedVendor # <<>>)
    /\ [][/\ (isModalOpen' /\ ~isModalOpen) =>
                 /\ selectedVendor' # <<>>
                 /\ handleViewDetails(selectedVendor'[1].symbol)
                        = selectedVendor'
          /\ (selectedVendor' # selectedVendor /\ selectedVendor' # <<>>) =>
                 /\ isModalOpen'
                 /\ handleViewDetails(selectedVendor'[1].symbol)
                        = selectedVendor'
          /\ (isModalOpen /\ ~isModalOpen') => selectedVendor' = <<>>
          /\ (selectedVendor # <<>> /\ selectedVendor' = <<>>) =>
                 ~isModalOpen']_vars

\* the modal is open on a list that a later operation than the first load
\* delivered
C26_Witness ==
    /\ isModalOpen
    /\ selectedVendor # <<>>
    /\ vendorsFrom > 1

\* C27: while the dashboard shows the open modal, the record it displays is
\* the record the current vendor list holds for that symbol.
C27_ModalShowsCurrentRecord ==
    (view = "dashboard" /\ isModalOpen /\ selectedVendor # <<>>) =>
        handleViewDetails(selectedVendor[1].symbol) = selectedVendor

----------------------------------------------------------------------------
(* Claims about the cache timer (SpecCache) *)

\* a step of a tick of the cache timer
CacheStep == cacheOps' # cacheOps

\* C23: a tick awaits optimizeCache only after its own getCacheStatus
\* reported optimization_needed, and no step of a tick (its start, a call
\* that resolves or rejects) changes vendors, kpis, error, isLoading,
\* isRefreshing or the modal state, or changes whether Retry, Refresh, Export
\* and View Details can be clicked, whatever is pending.
C23_CacheTickFireAndForget ==
    /\ [](\A i \in 1..Len(cacheOps) :
              cacheOps[i].pc = "optimizeCache" => cacheOps[i].status = "needed")
    /\ [][CacheStep =>
              /\ UNCHANGED <<vendors, kpis, error, isLoading, isRefreshing,
                             selectedVendor, isModalOpen>>
              /\ UNCHANGED <<loadOp, refreshOp, exportOps, downloads, view>>
              /\ RetryEnabled' = RetryEnabled
              /\ RefreshEnabled' = RefreshEnabled
              /\ ExportEnabled' = ExportEnabled]_vars
    /\ [](/\ ENABLED Retry <=> (RetryEnabled /\ issued < MaxOps)
          /\ ENABLED RefreshClick <=> (RefreshEnabled /\ issued < MaxOps)
          /\ ENABLED ExportClick <=>
                 (ExportEnabled /\ Len(exportOps) + Len(downloads) < MaxExports))

\* a tick awaits optimizeCache while a refresh is in flight and the modal
\* is open
C23_Witness ==
    /\ \E i \in 1..Len(cacheOps) : cacheOps[i].pc = "optimizeCache"
    /\ isRefreshing
    /\ isModalOpen

----------------------------------------------------------------------------
(* Claims about the data Index displays (Spec) *)

\* the step completes the load whose two fetches both succeeded
LoadCompletes ==
    /\ loadOp.pc = "fetchKPIs"
    /\ loadOp' = IdleLoad
    /\ notification' = "Data Loaded Successfully"
    /\ vendorsFrom' = loadOp.seq

\* the step completes the refresh whose two fetches both succeeded: one
\* had resolved and the other resolves now
RefreshCompletes ==
    /\ refreshOp.pc = "pending"
    /\ (refreshOp.v # <<>>) # (refreshOp.k # <<>>)
    /\ refreshOp' = IdleRefresh
    /\ notification' = "Data Refreshed"
    /\ vendorsFrom' = refreshOp.seq

----------------------------------------------------------------------------
(* Claims about ExportControls (SpecControls) *)

\* the handlers of the given kind that still await their timer
Running(kind) == {i \in 1..Len(controlsOps) : controlsOps[i] = kind}

\* C28: isCsvExporting and isReportGenerating are never both true, at most
\* one export handler is running, and each flag is true exactly while its
\* handler runs: it is false again once the handler has finished, whether
\* it produced its file or threw.
C28_OneExportAtATime ==
    /\ ~(isCsvExporting /\ isReportGenerating)
    /\ Cardinality(Running("csv") \cup Running("report")) <= 1
    /\ isCsvExporting <=> Running("csv") # {}
    /\ isReportGenerating <=> Running("report") # {}

\* a report is being generated after a CSV export that threw
C28_Witness ==
    /\ isReportGenerating
    /\ ~isCsvExporting
    /\ \E i \in 1..Len(controlsFiles) : controlsFiles[i].kind = "csv failed"

----------------------------------------------------------------------------
(* Claims about the filter header of the table (SpecFilters) *)

\* the controls that restrict the list: a non-empty search text, a type
\* filter other than 'all', a risk filter other than 'all'
RestrictingControls ==
    (IF searchTerm # <<>> THEN 1 ELSE 0)
    + (IF filterType # FilterAll THEN 1 ELSE 0)
    + (IF filterRisk # FilterAll THEN 1 ELSE 0)

\* C29: activeFilterCount is the number of controls that restrict the list,
\* whatever the search text is, so the note and the Clear button show
\* (activeFilterCount > 0) whenever the table displays fewer vendors than it
\* was given; and a step that resets the three controls leaves sortField
\* and sortOrder unchanged.
C29_ActiveFilterCount ==
    /\ [](/\ activeFilterCount = RestrictingControls
          /\ Len(Displayed) < Len(tableVendors) => activeFilterCount > 0)
    /\ [][(/\ RestrictingControls > 0
           /\ searchTerm' = <<>>
           /\ filterType' = FilterAll
           /\ filterRisk' = FilterAll) =>
              UNCHANGED <<sortField, sortOrder>>]_vars

----------------------------------------------------------------------------
(* Claims about the vendor normalizer (SpecMap) *)

NumericFields ==
    {"marketCap", "revenue", "profitMargin", "peRatio", "weekHigh52",
     "weekLow52", "currentPrice", "stockPrice", "riskScore", "financialHealth",
     "marketStability", "growthProspects", "beta", "roe", "debtToEquity"}

StringFields ==
    {"symbol", "name", "industry", "vendorType", "riskLevel", "lastUpdated"}

\* the backend property a numeric field of the view model is computed from
SourceOf(k) == IF k = "stockPrice" THEN "currentPrice" ELSE k

\* an object as JSON.parse yields them: no property read throws
PlainObject(bv) == bv.t = "object" /\ bv.trap = {}

\* the symbol of bv "if available"
SymbolAvailable(bv) ==
    bv.t = "object" /\ "symbol" \notin bv.trap /\ ~IsNullish(bv.f["symbol"])

\* C1: mapBackendVendorsToFrontend returns normally on every list, with one
\* output record per input record in the same order; a record whose mapping
\* throws yields the fully-defaulted placeholder, tagged with the original
\* symbol if available and "UNKNOWN" otherwise.
C1_ListNeverShrinks ==
    mapped # <<>> =>
        /\ ~mapped[1].thrown
        /\ Len(mapped[1].value) = Len(backendVendors)
        /\ \A i \in 1..Len(backendVendors) :
               LET bv == backendVendors[i]
                   r == mapped[1].value[i]
               IN  IF bv.t = "object" /\ bv.trap = {}
                   THEN r.symbol = safeString(bv.f["symbol"], NotAvailable)
                   ELSE /\ r.symbol = IF SymbolAvailable(bv)
                                      THEN Str(StringOf(bv.f["symbol"]))
                                      ELSE Str(UNKNOWN)
                        /\ \A k \in NumericFields \ {"beta", "riskScore",
                               "financialHealth", "marketStability",
                               "growthProspects"} : r[k] = Num(0)
                        /\ r.riskLevel = Str(medium)

\* C2: for a backend object with any fields null or missing, every numeric
\* field of the mapped record is a finite number (0 when its input is
\* absent) and every required string field is a string.
C2_NumericFieldsDefined ==
    (mapped # <<>> /\ ~mapped[1].thrown) =>
        \A i \in 1..Len(backendVendors) :
            PlainObject(backendVendors[i]) =>
                LET bv == backendVendors[i]
                    r == mapped[1].value[i]
                IN  /\ \A k \in NumericFields :
                           /\ r[k].t = "number"
                           /\ IsNullish(bv.f[SourceOf(k)]) => r[k] = Num(0)
                    /\ \A k \in StringFields : r[k].t = "string"

\* a record with marketCap missing and revenue null has been mapped
C2_Witness ==
    /\ mapped # <<>>
    /\ Len(backendVendors) = 1
    /\ PlainObject(backendVendors[1])
    /\ backendVendors[1].f["marketCap"] = Undefined
    /\ backendVendors[1].f["revenue"] = Null
    /\ ~mapped[1].thrown
    /\ mapped[1].value[1].marketCap = Num(0)
    /\ mapped[1].value[1].revenue = Num(0)

\* C18: whatever the risk field of a backend record holds (nothing, null or
\* any string), the riskLevel of the normalized record is low, medium or
\* high, and the low/medium/high table of VendorCard and VendorDetailModal
\* has an entry for it.
C18_RiskLevelInRange ==
    (mapped # <<>> /\ ~mapped[1].thrown) =>
        \A i \in 1..Len(backendVendors) :
            PlainObject(backendVendors[i]) =>
                /\ mapped[1].value[i].riskLevel \in
                       {Str(low), Str(medium), Str(high)}
                /\ riskIndicator(mapped[1].value[i].riskLevel) # <<>>

----------------------------------------------------------------------------
(* Claims about the page controller (Spec, FairSpec) *)

\* C3: when the dashboard body is rendered with an empty vendor list (a load
\* succeeded with zero vendors: isLoading false, error null), KPICards and
\* RiskAnalysisPanel render and no exception is raised.
C3_EmptyListRenders ==
    (Len(vendors) = 0 /\ ~isLoading /\ error = NULL) =>
        /\ ~KPICards(vendors, kpis).thrown
        /\ ~RiskAnalysisPanel(vendors).thrown
        /\ RiskAnalysisPanel(vendors).insight = "No data available"
        /\ view = "dashboard"

\* C4: the full-page error view is shown exactly when error is non-null and
\* the vendor list is empty; with a non-empty list the main view is shown.
C4_ErrorViewIffNoData ==
    /\ view = "error" <=> (error # NULL /\ Len(vendors) = 0)
    /\ Len(vendors) > 0 => view \in {"loading", "dashboard"}

\* a refresh failed while there was no data: the error view is up
C4_Witness ==
    /\ view = "error"
    /\ error # NULL
    /\ Len(vendors) = 0
    /\ notification = "Refresh Failed"

\* the step is handleRefresh failing
RefreshFails ==
    /\ refreshOp.pc = "pending"
    /\ refreshOp'.pc = "idle"
    /\ notification' = "Refresh Failed"

\* C5: when handleRefresh fails while vendor data is displayed, vendors and
\* kpis stay as they were, the main view stays, and only error, the
\* notification and isRefreshing change.
C5_FailedRefreshKeepsData ==
    [][(RefreshFails /\ Len(vendors) > 0 /\ view # "crashed") =>
           /\ vendors' = vendors
           /\ kpis' = kpis
           /\ view' = view
           /\ view' \in {"loading", "dashboard"}
           /\ error' # NULL
           /\ ~isRefreshing'
           /\ UNCHANGED <<isLoading, loadOp, exportOps, downloads, issued,
                          vendorsFrom, kpisFrom>>]_vars

\* a refresh has failed and the stale data is still displayed
C5_Witness ==
    /\ notification = "Refresh Failed"
    /\ error # NULL
    /\ Len(vendors) > 0
    /\ view = "dashboard"
    /\ ~isRefreshing

\* C6: every invocation of handleExport ends with exactly one CSV download,
\* the API's blob with "Export Complete" if the API export succeeded and a
\* locally generated CSV with "Export Complete (Fallback)" if it failed, and
\* leaves vendors, kpis, error, isLoading and isRefreshing unchanged.
C6_ExportAlwaysDownloads ==
    [][/\ (exportOps' # exportOps \/ downloads' # downloads) =>
              UNCHANGED <<vendors, kpis, error, isLoading, isRefreshing>>
       /\ downloads' # downloads => Len(exportOps') < Len(exportOps)
       /\ Len(exportOps') < Len(exportOps) =>
              /\ Len(exportOps') = Len(exportOps) - 1
              /\ Len(downloads') = Len(downloads) + 1
              /\ SubSeq(downloads', 1, Len(downloads)) = downloads
              /\ LET d == downloads'[Len(downloads')]
                 IN  /\ d.apiOk =>
                            /\ d.source = "api"
                            /\ notification' = "Export Complete"
                     /\ ~d.apiOk =>
                            /\ d.source = "local"
                            /\ notification' = "Export Complete (Fallback)"
                            /\ \E i \in 1..Len(exportOps) :
                                   d.rows = Len(exportOps[i])]_vars

\* an export fell back to the local CSV of a non-empty vendor list
C6_Witness ==
    /\ Len(downloads) = 1
    /\ downloads[1].source = "local"
    /\ downloads[1].rows > 0
    /\ notification = "Export Complete (Fallback)"

\* C7: loadData and handleRefresh are never in flight at the same time, so
\* the displayed data is never overwritten by the response of a request
\* issued before the one whose data is displayed.
C7_NoConcurrentWriters ==
    /\ [](~(loadOp.pc # "idle" /\ refreshOp.pc # "idle"))
    /\ [][vendorsFrom' >= vendorsFrom]_vars

\* no load and no refresh is in flight
Quiescent == loadOp.pc = "idle" /\ refreshOp.pc = "idle"

\* C8: if every fetch eventually settles, isLoading and isRefreshing always
\* eventually return to false, and once nothing is in flight Retry or
\* Refresh is enabled again.
C8_EventuallyUsable ==
    /\ []<>(~isLoading)
    /\ []<>(~isRefreshing)
    /\ [](Quiescent => (RetryEnabled \/ RefreshEnabled))

\* C19: in every reachable state of the dashboard no two records of the
\* vendor list have the same symbol, and handleViewDetails called with the
\* symbol of a row selects the record of that row.
C19_SymbolsUnique ==
    /\ \A i, j \in 1..Len(vendors) :
           vendors[i].symbol = vendors[j].symbol => i = j
    /\ \A i \in 1..Len(vendors) :
           handleViewDetails(vendors[i].symbol) = <<vendors[i]>>

\* the 15 column names of C20
FifteenColumns ==
    <<"Company", "Symbol", "Industry", "Market Cap (B)", "Revenue (B)",
      "Profit Margin (%)", "P/E Ratio", "52W High", "52W Low",
      "Current Price", "Risk Level", "Risk Score", "Beta", "ROE (%)",
      "Debt to Equity">>

\* csv begins with the 15 column names and has 15 values in each data row
HasFifteenColumns(csv) ==
    /\ csv.header = FifteenColumns
    /\ Len(csv.fields) = Len(FifteenColumns)

\* C20: every CSV generated client-side for the vendor list, by
\* ExportControls and by the local fallback of handleExport, begins with
\* exactly the 15 column names Company ... Debt to Equity, in this order,
\* followed by one data row of 15 values per vendor.
C20_FifteenColumns ==
    /\ HasFifteenColumns(handleExportCSV(vendors))
    /\ handleExportCSV(vendors).rows = Len(vendors)
    /\ \A i \in 1..Len(downloads) :
           downloads[i].source = "local" => HasFifteenColumns(downloads[i])

----------------------------------------------------------------------------
(* Claims about the comparison table (SpecTable) *)

\* how many times r occurs in list
Count(list, r) == Cardinality({i \in 1..Len(list) : list[i] = r})

\* the three conditions of C9 on a vendor, for the current controls
MatchesControls(v) ==
    /\ \/ searchTerm = <<>>
       \/ \E text \in {v.name.s, v.symbol.s, v.industry.s} :
              includes(toLowerCase(text), toLowerCase(searchTerm))
    /\ \/ filterType = FilterAll
       \/ filterType = FilterSensors /\ v.industry.s = Sensors
       \/ filterType = FilterMaterials /\ v.industry.s \in {Materials, Plastics}
    /\ \/ filterRisk = FilterAll
       \/ v.riskLevel.s = filterRisk

\* C9: a vendor is in the table's output if and only if it passes the
\* search (case-insensitive substring of name, symbol or industry), the type
\* filter and the risk filter; each input vendor appears at most once.
C9_FilterExact ==
    LET shown == Displayed
    IN  /\ Len(shown) <= Len(tableVendors)
        /\ \A r \in {tableVendors[i] : i \in 1..Len(tableVendors)}
                  \cup {shown[i] : i \in 1..Len(shown)} :
               Count(shown, r) =
                   IF MatchesControls(r) THEN Count(tableVendors, r) ELSE 0

\* a mixed-case search with both filters set keeps one vendor of three
C9_Witness ==
    /\ searchTerm = <<"d", "U">>
    /\ filterType = FilterMaterials
    /\ filterRisk = high
    /\ Len(tableVendors) = 3
    /\ Displayed = <<TableDD>>

\* C10: the table's output is ordered by the sort field: adjacent rows are
\* non-increasing for 'desc' and non-decreasing for 'asc', numbers compared
\* numerically and strings by localeCompare.
C10_OutputOrdered ==
    LET shown == Displayed
    IN  \A i \in 1..(Len(shown) - 1) :
            LET x == shown[i][sortField]
                y == shown[i + 1][sortField]
            IN  /\ x.t = y.t
                /\ x.t \in {"number", "string"}
                /\ x.t = "number" =>
                       IF sortOrder = "desc" THEN x.n >= y.n ELSE x.n <= y.n
                /\ x.t = "string" =>
                       IF sortOrder = "desc" THEN localeCompare(x.s, y.s) >= 0
                       ELSE localeCompare(x.s, y.s) <= 0

\* three vendors sorted by name ascending: dupont, DuPont, TE Conn
C10_Witness ==
    /\ sortField = "name"
    /\ sortOrder = "asc"
    /\ Displayed = <<TableLYB, TableDD, TableTEL>>
    /\ tableVendors # Displayed

\* C11: from (marketCap, desc), a click on the selected column keeps
\* sortField and flips sortOrder between 'asc' and 'desc'; a click on another
\* column selects it with 'desc' whatever the order was; no click changes
\* the search, the type filter or the risk filter.
C11_HeaderClick ==
    /\ (sortField = "marketCap" /\ sortOrder = "desc")
    /\ [][(\/ sortField' # sortField
           \/ sortOrder' # sortOrder
           \/ shownBefore' # shownBefore /\ shownBefore' # <<>>) =>
              /\ sortOrder \in {"asc", "desc"}
              /\ sortField' = sortField =>
                     sortOrder' = (IF sortOrder = "asc" THEN "desc" ELSE "asc")
              /\ sortField' # sortField =>
                     sortField' \in SortableFields /\ sortOrder' = "desc"
              /\ UNCHANGED <<searchTerm, filterType, filterRisk,
                             tableVendors>>]_vars

\* the name column was selected while the order was 'asc', then clicked
C11_Witness ==
    /\ sortField = "name"
    /\ sortOrder = "asc"
    /\ Len(shownBefore) = 1
    /\ searchTerm # <<>>

\* the step is a click on the selected column that follows another one
SecondClick ==
    /\ shownBefore # <<>>
    /\ shownBefore' # <<>>
    /\ tableVars' # tableVars

\* C12: for every vendor list, filter setting and sort field, two clicks in
\* a row on the selected column's header leave the table displaying the
\* list it displayed before them, in the same order.
C12_TwoClicksRestore ==
    [][SecondClick =>
           filteredAndSortedVendors(tableVendors', searchTerm', filterType',
                                    filterRisk', sortField', sortOrder')
               = shownBefore[1]]_vars

\* after a click on the revenue column, on which two different vendors of
\* the list are equal, the table shows another order than before the click
C12_Witness ==
    /\ shownBefore # <<>>
    /\ sortField = "revenue"
    /\ sortOrder = "asc"
    /\ Len(Displayed) = 3
    /\ \E i \in 1..2 :
           /\ Displayed[i] # Displayed[i + 1]
           /\ Displayed[i].revenue = Displayed[i + 1].revenue
    /\ shownBefore[1] # Displayed

\* the records of list whose sort field holds value, in list order
TiedAt(list, value) ==
    LET Tied(r) == r[sortField] = value
    IN  SelectSeq(list, Tied)

\* C13: the filter-and-sort computation leaves the vendors list it is given
\* as it was, and vendors with equal values in the sort field are displayed
\* in the relative order they have in that list, for 'asc' and for 'desc'.
C13_StableTies ==
    /\ [](LET shown == Displayed
               kept == FilterFrom(tableVendors, 1, searchTerm, filterType,
                                  filterRisk)
           IN  \A i \in 1..Len(shown) :
                   LET value == shown[i][sortField]
                   IN  TiedAt(shown, value) = TiedAt(kept, value))
    /\ [][tableVendors' = tableVendors]_vars

\* sorted by revenue ascending, the two vendors with equal revenue come
\* before the third one, which the list has between them, and keep the
\* order of the list
C13_Witness ==
    /\ sortField = "revenue"
    /\ sortOrder = "asc"
    /\ tableVendors = <<TableLYB, TableTEL, TableDD>>
    /\ Displayed = <<TableLYB, TableDD, TableTEL>>

----------------------------------------------------------------------------
(* Claims about the recommendations (SpecRec) *)

\* the value of a metric: the first present of its sources, 0 when absent
FirstPresent(sources) ==
    LET present == SelectSeq(sources, Truthy)
    IN  IF present = <<>> THEN 0 ELSE present[1].n

\* a vendor's debt/equity: financialRatios.debt_to_equity, else debtToEquity
DebtEquityOf(v) ==
    FirstPresent(<<OptionalField(v.financialRatios, "debt_to_equity"),
                   v.debtToEquity>>)
CurrentRatioOf(v) ==
    FirstPresent(<<OptionalField(v.financialRatios, "current_ratio")>>)
CashRatioOf(v) ==
    FirstPresent(<<OptionalField(v.financialRatios, "cash_ratio")>>)
FinancialStabilityOf(v) ==
    FirstPresent(<<OptionalField(v.riskScores, "financial_stability"),
                   v.financialStability>>)
GrowthProspectsOf(v) ==
    FirstPresent(<<OptionalField(v.riskScores, "growth_prospects"),
                   v.growthProspects>>)

\* the conditions C14 gives for the per-vendor rules
DebtAboveOne(v) == DebtEquityOf(v) > Unit
CurrentRatioBelowOne(v) == CurrentRatioOf(v) < Unit
CashRatioBelowFivePercent(v) == 100 * CashRatioOf(v) < 5 * Unit
MarginNegative(v) == v.profitMargin.n < 0
StableLowDebtProfitable(v) ==
    /\ FinancialStabilityOf(v) > 75 * Unit
    /\ 10 * DebtEquityOf(v) < 6 * Unit
    /\ v.profitMargin.n > 5 * Unit
GrowthBelowForty(v) == GrowthProspectsOf(v) < 40 * Unit

\* the cards rendered with rule id `id`
CardsOf(id) ==
    LET HasId(c) == c.id = id
    IN  SelectSeq(recRendered[1].cards, HasId)

\* rule `id` with priority p is reported exactly when `fires`, once, and
\* lists the symbols of `affected`
RuleReported(id, p, fires, affected) ==
    /\ Len(CardsOf(id)) = (IF fires THEN 1 ELSE 0)
    /\ fires => /\ CardsOf(id)[1].priority = p
                /\ CardsOf(id)[1].affectedVendors = SymbolsOf(affected)

\* C14: every rule is evaluated on every list and reported if and only if
\* its condition holds: high-debt (high) iff some vendor has debt/equity above
\* 1.0, low-liquidity (high) iff some current ratio is below 1.0, low-cash
\* (medium) iff some cash ratio is below 0.05, unprofitable (high) iff some
\* profit margin is negative, optimal-partners (low) iff some vendor has
\* financial stability above 75, debt/equity below 0.6 and profit margin
\* above 5, growth-concerns (medium) iff the vendors with growth prospects
\* below 40 are more than 30% of the list; each lists exactly the vendors
\* meeting its condition, in list order, and occurs at most once.
C14_RulesFireExactly ==
    recRendered # <<>> =>
        LET Meeting(Cond(_)) == SelectSeq(recVendors, Cond)
            lowGrowth == SelectSeq(recVendors, GrowthBelowForty)
        IN  /\ RuleReported("high-debt", "high",
                   Meeting(DebtAboveOne) # <<>>, Meeting(DebtAboveOne))
            /\ RuleReported("low-liquidity", "high",
                   Meeting(CurrentRatioBelowOne) # <<>>,
                   Meeting(CurrentRatioBelowOne))
            /\ RuleReported("low-cash", "medium",
                   Meeting(CashRatioBelowFivePercent) # <<>>,
                   Meeting(CashRatioBelowFivePercent))
            /\ RuleReported("unprofitable", "high",
                   Meeting(MarginNegative) # <<>>, Meeting(MarginNegative))
            /\ RuleReported("optimal-partners", "low",
                   Meeting(StableLowDebtProfitable) # <<>>,
                   Meeting(StableLowDebtProfitable))
            /\ RuleReported("growth-concerns", "medium",
                   10 * Len(lowGrowth) > 3 * Len(recVendors), lowGrowth)

\* how many vendors of the list are in industry ind
IndustryCount(ind) ==
    Cardinality({i \in 1..Len(recVendors) : recVendors[i].industry.s = ind})

\* C15: the concentration-risk recommendation (medium) is produced if and
\* only if the list is non-empty and the most frequent industry holds
\* strictly more than 70% of the vendors; it then reports that industry's
\* count over the list length as a percentage (4 of 5: 80) and lists
\* exactly the vendors of that industry.
C15_ConcentrationRule ==
    recRendered # <<>> =>
        LET total == Len(recVendors)
            industries == {recVendors[i].industry.s : i \in 1..total}
            over == {ind \in industries : 10 * IndustryCount(ind) > 7 * total}
            cards == CardsOf("concentration-risk")
        IN  /\ Len(cards) = (IF total > 0 /\ over # {} THEN 1 ELSE 0)
            /\ \A ind \in over :
                   LET InIndustry(v) == v.industry.s = ind
                       percent == cards[1].description.percent
                   IN  /\ \A other \in industries :
                              IndustryCount(other) <= IndustryCount(ind)
                       /\ cards[1].priority = "medium"
                       /\ cards[1].description.industry = ind
                       /\ 2 * percent * total - 200 * IndustryCount(ind)
                              \in (-total)..total
                       /\ (IndustryCount(ind) = 4 /\ total = 5) => percent = 80
                       /\ cards[1].affectedVendors =
                              SymbolsOf(SelectSeq(recVendors, InIndustry))

\* four Sensors vendors of five, the Materials vendor in the middle: 80%
C15_Witness ==
    /\ recRendered # <<>>
    /\ Len(recVendors) = 5
    /\ IndustryCount(Sensors) = 4
    /\ recVendors[3].industry.s = Materials
    /\ Len(CardsOf("concentration-risk")) = 1
    /\ CardsOf("concentration-risk")[1].description.percent = 80
    /\ Len(CardsOf("concentration-risk")[1].affectedVendors) = 4

\* C16: the list generateRecommendations returns is ordered by priority,
\* every high before every medium before every low recommendation, and each
\* recommendation carries a rule id, a title, a description, an action and
\* the list of affected vendor symbols.
C16_PriorityOrder ==
    recRendered # <<>> =>
        LET cards == recRendered[1].cards
            Rank(c) == IF c.priority = "high" THEN 1
                       ELSE IF c.priority = "medium" THEN 2 ELSE 3
        IN  /\ \A i, j \in 1..Len(cards) :
                   i < j => Rank(cards[i]) <= Rank(cards[j])
            /\ \A i \in 1..Len(cards) :
                   /\ {"id", "title", "description", "action",
                       "affectedVendors", "priority"} \subseteq DOMAIN cards[i]
                   /\ cards[i].priority \in {"high", "medium", "low"}
                   /\ cards[i].id # "" /\ cards[i].title # ""
                   /\ cards[i].action # ""
                   /\ \A k \in 1..Len(cards[i].affectedVendors) :
                          \E v \in 1..Len(recVendors) :
                              recVendors[v].symbol.s =
                                  cards[i].affectedVendors[k]

\* a low recommendation pushed before a medium one is returned after it,
\* and a high one pushed after a medium one before it
C16_Witness ==
    /\ recRendered # <<>>
    /\ \E i, j \in 1..Len(PushedRecommendations(recVendors)) :
           /\ i < j
           /\ PushedRecommendations(recVendors)[i].priority = "low"
           /\ PushedRecommendations(recVendors)[j].priority = "medium"
    /\ \E i, j \in 1..Len(PushedRecommendations(recVendors)) :
           /\ i < j
           /\ PushedRecommendations(recVendors)[i].priority = "medium"
           /\ PushedRecommendations(recVendors)[j].priority = "high"
    /\ recRendered[1].cards[1].priority = "high"
    /\ recRendered[1].cards[Len(recRendered[1].cards)].priority = "low"

\* C17: FinancialRecommendations renders "Excellent Portfolio Health" if and
\* only if no rule fires, never an empty list of recommendations, and an
\* empty vendor list fires no rule and is rendered as the healthy state.
C17_HealthyIffNoRule ==
    recRendered # <<>> =>
        LET healthy == recRendered[1].shows = "Excellent Portfolio Health"
        IN  /\ healthy <=> PushedRecommendations(recVendors) = <<>>
            /\ ~healthy => /\ recRendered[1].shows = "recommendations"
                           /\ recRendered[1].cards # <<>>
            /\ recVendors = <<>> => healthy

\* the empty vendor list has been rendered
C17_Witness ==
    /\ recRendered # <<>>
    /\ recVendors = <<>>
    /\ recRendered[1].shows = "Excellent Portfolio Health"

====
